---------------------------- MODULE Spec2Model ----------------------------
(***************************************************************************)
(* The adb sync client (adb/file_sync_client.cpp): one SyncConnection      *)
(* driven by do_sync_pull, do_sync_push or do_sync_sync, talking to a      *)
(* remote service that may answer anything and drop the stream anywhere.   *)
(*                                                                         *)
(* A path is [name, len, base]: len is its strlen and base the strlen of   *)
(* its last component, all the code ever looks at.  File contents are byte *)
(* ranges [off, n] of the file they come from.  io is the list of I/O      *)
(* calls made on the stream since the current per-source transaction (or   *)
(* the skip phase, or the destructor) began.                               *)
(***************************************************************************)
EXTENDS Integers, Sequences, FiniteSets, TLC

VARIABLES
    pc,      \* position of the client
    stack,   \* return positions of the calls in progress
    ret,     \* value returned by the last call that returned
    sc,      \* SyncConnection: fd, total_bytes, max
    io,      \* I/O calls on sc.fd in the current transaction or phase
    eng,     \* the command: its arguments and the locals of do_sync_*
    loc,     \* locals of the transfer in progress (sync_recv / sync_send / sync_ls)
    fs,      \* the local file the transfer in progress reads or creates
    st,      \* sync_stat: the path asked for, the out-pointers, the reply
    peer,    \* the remote end of the stream: "open" or "closed"
    cl,      \* locals of copy_local_dir_remote
    txn      \* what the stream has carried of the SEND transaction in progress

vars == <<pc, stack, ret, sc, io, eng, loc, fs, st, peer, cl, txn>>

-----------------------------------------------------------------------------
(* Bounds of the model *)

\* sources on one command line
MaxSrcs == 2
\* DATA frames the remote service sends for one RECV
MaxData == 2
\* files local_build_list finds under one directory
MaxFiles == 2
\* DENT frames the remote service sends for one LIST
MaxDents == 2
\* directory entries met in one walk, all directories together
MaxEnts == 2
\* threads that call the atomic operations on one address
MaxThreads == 2
\* the length of every file name (the last component of a path)
BaseLen == 4
\* the mtime of every local file
LocalTime == 5

-----------------------------------------------------------------------------
(* Protocol constants *)

SYNC_DATA_MAX == 65536
MaxPathLength == 1024
SyncRequestSize == 8
SyncStatSize == 16
SyncDentSize == 20
MaxNameLength == 256

S_IFMT == 61440
S_IFREG == 32768
S_IFLNK == 40960
S_IFDIR == 16384
S_IFCHR == 8192
S_IFBLK == 24576
S_IFIFO == 4096

S_ISREG(m) == (m \div 4096) % 16 = S_IFREG \div 4096
S_ISLNK(m) == (m \div 4096) % 16 = S_IFLNK \div 4096
S_ISDIR(m) == (m \div 4096) % 16 = S_IFDIR \div 4096
S_ISCHR(m) == (m \div 4096) % 16 = S_IFCHR \div 4096
S_ISBLK(m) == (m \div 4096) % 16 = S_IFBLK \div 4096

-----------------------------------------------------------------------------
(* The stream: what one I/O call moves *)

Hdr(id, len) == [k |-> "hdr", id |-> id, len |-> len]
PathBytes(p) == [k |-> "path", id |-> p.name, len |-> p.len]
DataBytes(off, n) == [k |-> "data", id |-> off, len |-> n]
Dent(id, mode, size, time, namelen) ==
    [k |-> "dent", id |-> id, mode |-> mode, size |-> size, time |-> time,
     len |-> namelen]
NameBytes(name, n) == [k |-> "name", id |-> name, len |-> n]
StatReply(mode, size, time) ==
    [k |-> "stat", id |-> "STAT", mode |-> mode, size |-> size, time |-> time]

\* WriteFdExactly(fd, buf, n): one call, n bytes, all of them or failure
WriteEv(ok, n, items) == [op |-> "write", ok |-> ok, n |-> n, data |-> items]
\* ReadFdExactly(fd, buf, n): one call, n bytes, all of them or failure
ReadEv(ok, n, items) == [op |-> "read", ok |-> ok, n |-> n, data |-> items]

\* a call that moves no byte cannot fail
IoOutcomes(n) == IF n = 0 THEN {TRUE} ELSE {TRUE, FALSE}

Writes(log) == SelectSeq(log, LAMBDA e : e.op = "write")
Reads(log) == SelectSeq(log, LAMBDA e : e.op = "read")

-----------------------------------------------------------------------------
(* SyncConnection *)

IsValid == sc.fd # "bad"

SendRequestAccepts(path) == path.len <= MaxPathLength

\* the one write of SendRequest(id, path): header and path together
RequestWrite(id, path, wok) ==
    WriteEv(wok, SyncRequestSize + path.len, <<Hdr(id, path.len), PathBytes(path)>>)

\* the log after SendRequest(id, path) whose write ends as wok
SendRequestIo(log, id, path, wok) ==
    IF ~SendRequestAccepts(path) THEN log
    ELSE Append(log, RequestWrite(id, path, wok))

SendRequestResult(path, wok) == SendRequestAccepts(path) /\ wok

\* the write outcomes SendRequest can meet
SendRequestOutcomes(path) ==
    IF SendRequestAccepts(path) THEN {TRUE, FALSE} ELSE {FALSE}

-----------------------------------------------------------------------------
(* The SEND transaction as the stream has carried it: "idle" (none open),
   "sent" (SEND written, DONE not yet), "done" (DONE written, response not
   yet read), "broken" (an I/O call on the stream failed, or the response
   was neither OKAY nor FAIL) *)

HdrIds(e) == {e.data[i].id : i \in {j \in 1..Len(e.data) : e.data[j].k = "hdr"}}

Track(t, e) ==
    IF t = "broken" \/ ~e.ok THEN "broken"
    ELSE IF e.op = "write"
      THEN IF "DONE" \in HdrIds(e) THEN "done"
           ELSE IF "SEND" \in HdrIds(e) THEN "sent"
           ELSE t
    ELSE IF t = "done" /\ e.data # <<>> /\ e.data[1].k = "hdr"
      THEN IF e.data[1].id \in {"OKAY", "FAIL"} THEN "idle" ELSE "broken"
    ELSE t

\* one more I/O call on the stream
Emit(e) == io' = Append(io, e) /\ txn' = Track(txn, e)

\* SendRequest(id, path) on the log, its write ending as wok
SendReq(log, id, path, wok) ==
    /\ io' = SendRequestIo(log, id, path, wok)
    /\ txn' = IF SendRequestAccepts(path)
                THEN Track(txn, RequestWrite(id, path, wok)) ELSE txn

-----------------------------------------------------------------------------
(* Control *)

Call(entry, back) == pc' = entry /\ stack' = <<back>> \o stack
Return(v) == ret' = v /\ pc' = Head(stack) /\ stack' = Tail(stack)
Goto(l) == pc' = l /\ UNCHANGED <<stack, ret>>

EngReturn(v) == eng' = [eng EXCEPT !.result = v] /\ pc' = "dtor"

NoPath == [name |-> "", len |-> 0, base |-> 0]
NoMsg == Hdr("", 0)
NoStat == [path |-> NoPath, want |-> {}, mode |-> 0, size |-> 0, time |-> 0]
NoLoc == [rpath |-> NoPath, lpath |-> NoPath, size |-> 0, bytes_copied |-> 0,
          msg |-> NoMsg, ndata |-> 0, off |-> 0,
          mode |-> 0, mtime |-> 0, pm |-> NoPath, dlen |-> 0,
          calls |-> <<>>, msglen |-> <<0, 0>>, bufsize |-> <<0, 0>>]
NoFs == [file |-> "absent", data |-> <<>>, lfd |-> "none", closes |-> 0]
NoCl == [list |-> <<>>, k |-> 1, pushed |-> 0, skipped |-> 0, rpath |-> NoPath,
         check_timestamps |-> FALSE, list_only |-> FALSE, would_push |-> <<>>,
         frames |-> <<>>, opened |-> 0, closed |-> 0, ents |-> 0]

-----------------------------------------------------------------------------
(* What the remote service and the local system may answer *)

PathLens == {MaxPathLength, MaxPathLength + 1}
\* lengths of dst: with "/name,33188" appended the first gives 1024, the second 1025
DstLens ==
    {MaxPathLength - BaseLen - 7, MaxPathLength - BaseLen - 6,
     MaxPathLength, MaxPathLength + 1}
RegMode == S_IFREG + 420
LnkMode == S_IFLNK + 511
DirMode == S_IFDIR + 493
FifoMode == S_IFIFO + 420
\* the pull of a remote directory (copy_remote_dir_local) is not modelled: the
\* service reports no directory to do_sync_pull
StatReplyModes ==
    IF eng.cmd = "pull" THEN {0, RegMode, LnkMode, FifoMode}
    ELSE IF eng.cmd = "push" THEN {0, RegMode, DirMode}
    ELSE {0, RegMode, LnkMode}
StatReplySizes == {0, 10}
StatReplyTimes == {LocalTime - 1, LocalTime, LocalTime + 1}
FileSizes == {SYNC_DATA_MAX - 1, SYNC_DATA_MAX, SYNC_DATA_MAX + 7}
DataSizes == {0, SYNC_DATA_MAX, SYNC_DATA_MAX + 1}
MsgLens == {0, 9}
OtherIds == {"FAIL", "OKAY"}

\* a reply whose id is not STAT
FailReply == [StatReply(0, 0, 0) EXCEPT !.id = "FAIL"]

\* a field the caller passed nullptr for is never stored: one value stands for all
Answers(field, all) == IF field \in st.want THEN all ELSE {CHOOSE x \in all : TRUE}

-----------------------------------------------------------------------------
(* sync_stat / sync_finish_stat *)

\* what sync_finish_stat stores for a reply r, by the out-pointers given
FinishStatStore(r) ==
    [st EXCEPT !.time = IF "time" \in st.want THEN r.time ELSE @,
               !.mode = IF "mode" \in st.want THEN r.mode ELSE @,
               !.size = IF "size" \in st.want THEN r.size ELSE @]

SyncStatSend ==
    /\ pc = "sync_stat"
    /\ \E wok \in SendRequestOutcomes(st.path) :
        /\ SendReq(io, "STAT", st.path, wok)
        /\ IF SendRequestResult(st.path, wok)
             THEN Goto("sync_finish_stat")
             ELSE Return(FALSE)
    /\ UNCHANGED <<sc, eng, loc, fs, st, peer, cl>>

SyncFinishStat ==
    /\ pc = "sync_finish_stat"
    /\ \/ /\ Emit(ReadEv(FALSE, SyncStatSize, <<>>))
          /\ Return(FALSE)
          /\ UNCHANGED st
       \/ \E r \in {FailReply} \cup
                    {StatReply(m, s, t) : m \in Answers("mode", StatReplyModes),
                                          s \in Answers("size", StatReplySizes),
                                          t \in Answers("time", StatReplyTimes)} :
            /\ Emit(ReadEv(TRUE, SyncStatSize, <<r>>))
            /\ IF r.id # "STAT"
                 THEN Return(FALSE) /\ UNCHANGED st
                 ELSE Return(TRUE) /\ st' = FinishStatStore(r)
    /\ UNCHANGED <<sc, eng, loc, fs, peer, cl>>

-----------------------------------------------------------------------------
(* sync_recv *)

CloseLfd(f) == [f EXCEPT !.lfd = "closed", !.closes = @ + 1]

\* an unlink that leaves the file where it is
UnlinkNothing(f) == f

\* adb_unlink(lpath)
Unlink(f) == [f EXCEPT !.file = "absent", !.data = <<>>]

\* a cleanup that forgets the unlink
RecvCleanupKeepsFile(f) == CloseLfd(f)

\* the cleanup of every failure of sync_recv after adb_creat
RecvCleanup(f) == Unlink(CloseLfd(f))

\* a ceiling that lets one byte too many through
DataTooLargeOffByOne(h) == h.len > sc.max + 1

\* msg.data.size > sc.max
DataTooLarge(h) == h.len > sc.max

\* sync_recv entry: size = 0, then sync_stat(rpath, nullptr, nullptr, &size)
SyncRecv ==
    /\ pc = "sync_recv"
    /\ st' = [NoStat EXCEPT !.path = loc.rpath, !.want = {"size"}]
    /\ Call("sync_stat", "recv_request")
    /\ UNCHANGED <<ret, sc, io, eng, loc, fs, peer, cl, txn>>

RecvRequest ==
    /\ pc = "recv_request"
    /\ IF ~ret
         THEN Return(FALSE) /\ UNCHANGED <<io, loc, txn>>
         ELSE \E wok \in SendRequestOutcomes(loc.rpath) :
                /\ SendReq(io, "RECV", loc.rpath, wok)
                /\ loc' = [loc EXCEPT !.size = st.size]
                /\ IF SendRequestResult(loc.rpath, wok)
                     THEN Goto("recv_creat")
                     ELSE Return(FALSE)
    /\ UNCHANGED <<sc, eng, fs, st, peer, cl>>

\* adb_unlink(lpath); mkdirs(lpath); adb_creat(lpath, 0644)
RecvCreat ==
    /\ pc = "recv_creat"
    /\ \E created \in BOOLEAN :
        IF created
          THEN /\ fs' = [file |-> "new", data |-> <<>>, lfd |-> "open", closes |-> 0]
               /\ Goto("recv_hdr")
          ELSE /\ fs' = Unlink(fs)
               /\ Return(FALSE)
    /\ UNCHANGED <<sc, io, eng, loc, st, peer, cl, txn>>

\* the headers the service may send next
RecvHeaders ==
    {Hdr("DONE", 0)}
    \cup {Hdr(id, n) : id \in OtherIds, n \in MsgLens}
    \cup (IF loc.ndata < MaxData THEN {Hdr("DATA", n) : n \in DataSizes} ELSE {})

RecvHdr ==
    /\ pc = "recv_hdr"
    /\ \/ /\ Emit(ReadEv(FALSE, SyncRequestSize, <<>>))
          /\ fs' = RecvCleanup(fs)
          /\ Return(FALSE)
          /\ UNCHANGED loc
       \/ \E h \in RecvHeaders :
            /\ Emit(ReadEv(TRUE, SyncRequestSize, <<h>>))
            /\ loc' = [loc EXCEPT !.msg = h,
                                  !.ndata = IF h.id = "DATA" THEN @ + 1 ELSE @]
            /\ IF h.id = "DONE"
                 THEN fs' = CloseLfd(fs) /\ Return(TRUE)
               ELSE IF h.id # "DATA"
                 THEN fs' = RecvCleanup(fs) /\ Goto("report_copy_failure")
               ELSE IF DataTooLarge(h)
                 THEN fs' = RecvCleanup(fs) /\ Return(FALSE)
               ELSE UNCHANGED fs /\ Goto("recv_payload")
    /\ UNCHANGED <<sc, eng, st, peer, cl>>

RecvPayload ==
    /\ pc = "recv_payload"
    /\ \E rok \in IoOutcomes(loc.msg.len) :
        /\ Emit(ReadEv(rok, loc.msg.len,
                                   IF rok THEN <<DataBytes(loc.off, loc.msg.len)>>
                                          ELSE <<>>))
        /\ IF rok
             THEN UNCHANGED fs /\ Goto("recv_write")
             ELSE fs' = RecvCleanup(fs) /\ Return(FALSE)
    /\ UNCHANGED <<sc, eng, loc, st, peer, cl>>

\* WriteFdExactly(lfd, buffer, size), the accounting, and the percentage
\* bytes_copied * 100 / size, whose divisor is the size of the STAT reply
RecvWrite ==
    /\ pc = "recv_write"
    /\ \E wok \in IoOutcomes(loc.msg.len) :
        IF ~wok
          THEN /\ fs' = RecvCleanup(fs)
               /\ Return(FALSE)
               /\ UNCHANGED <<sc, loc>>
          ELSE /\ fs' = [fs EXCEPT !.data =
                             Append(@, DataBytes(loc.off, loc.msg.len))]
               /\ sc' = [sc EXCEPT !.total_bytes = @ + loc.msg.len]
               /\ loc' = [loc EXCEPT !.bytes_copied = @ + loc.msg.len,
                                     !.off = @ + loc.msg.len]
               /\ IF loc.size = 0
                    THEN \E traps \in BOOLEAN :
                           IF traps THEN pc' = "crashed" /\ UNCHANGED <<stack, ret>>
                                    ELSE Goto("recv_hdr")
                    ELSE Goto("recv_hdr")
    /\ UNCHANGED <<io, eng, st, peer, cl, txn>>

\* ReportCopyFailure: a read of msglen bytes, then the error is printed
ReportCopyFailure ==
    /\ pc = "report_copy_failure"
    /\ \E rok \in IoOutcomes(loc.msg.len) :
        /\ Emit(ReadEv(rok, loc.msg.len, <<>>))
        /\ Return(FALSE)
    /\ UNCHANGED <<sc, eng, loc, fs, st, peer, cl>>

-----------------------------------------------------------------------------
(* sync_send, SendSmallFile, SendLargeFile, CopyDone *)

RECURSIVE DecLen(_)
\* the number of characters "%d" prints for n >= 0
DecLen(n) == IF n < 10 THEN 1 ELSE 1 + DecLen(n \div 10)

\* StringPrintf("%s,%d", rpath, mode)
PathAndMode(rpath, mode) ==
    [name |-> <<rpath.name, mode>>, len |-> rpath.len + 1 + DecLen(mode),
     base |-> rpath.base]

\* a dispatch that sends a file of exactly SYNC_DATA_MAX bytes in one burst
UseBurstFormInclusive(size) == size <= SYNC_DATA_MAX

\* st.st_size < SYNC_DATA_MAX
UseBurstForm(size) == size < SYNC_DATA_MAX

\* a length check that lets one byte too many through
SendSmallFileAcceptsOneMore(path) == path.len <= MaxPathLength + 1

SendSmallFileAccepts(path) == path.len <= MaxPathLength

\* a burst that leaves the DONE header out
SmallFileWriteNoDone(path, n, mtime, wok) ==
    WriteEv(wok, SyncRequestSize + path.len + SyncRequestSize + n,
            <<Hdr("SEND", path.len), PathBytes(path),
              Hdr("DATA", n), DataBytes(0, n)>>)

\* the one write of SendSmallFile: SEND, path,mode, DATA, the data, DONE
SmallFileWrite(path, n, mtime, wok) ==
    WriteEv(wok, SyncRequestSize + path.len + SyncRequestSize + n + SyncRequestSize,
            <<Hdr("SEND", path.len), PathBytes(path),
              Hdr("DATA", n), DataBytes(0, n),
              Hdr("DONE", mtime)>>)

\* adb_read(lfd, sbuf.data, sc.max) at a file with `left` bytes to go
AdbRead(left, max) == IF left < max THEN left ELSE max

\* a chunk whose header says one byte more than was read
ChunkWriteOneMore(off, n, wok) ==
    WriteEv(wok, SyncRequestSize + n, <<Hdr("DATA", n + 1), DataBytes(off, n)>>)

\* the one write of a chunk of SendLargeFile: DATA header and the bytes
ChunkWrite(off, n, wok) ==
    WriteEv(wok, SyncRequestSize + n, <<Hdr("DATA", n), DataBytes(off, n)>>)

CopyResponses ==
    {Hdr("OKAY", 0), Hdr("DATA", 0)} \cup {Hdr("FAIL", n) : n \in MsgLens}

\* readlink for a symlink; else the mode check, stat and the dispatch on size
SyncSend ==
    /\ pc = "sync_send"
    /\ LET pm == PathAndMode(loc.rpath, loc.mode) IN
       IF S_ISLNK(loc.mode)
         THEN \E readlink_ok \in BOOLEAN :
                IF readlink_ok
                  THEN /\ loc' = [loc EXCEPT !.pm = pm, !.dlen = loc.size + 1]
                       /\ Goto("send_small")
                  ELSE Return(FALSE) /\ UNCHANGED loc
       ELSE IF ~S_ISREG(loc.mode)
         THEN Return(FALSE) /\ UNCHANGED loc
       ELSE \E stat_ok \in BOOLEAN, read_ok \in BOOLEAN :
              IF ~stat_ok
                THEN read_ok /\ Return(FALSE) /\ UNCHANGED loc
              ELSE IF UseBurstForm(loc.size)
                THEN IF read_ok
                       THEN /\ loc' = [loc EXCEPT !.pm = pm, !.dlen = loc.size]
                            /\ Goto("send_small")
                       ELSE Return(FALSE) /\ UNCHANGED loc
              ELSE /\ read_ok
                   /\ loc' = [loc EXCEPT !.pm = pm]
                   /\ Goto("send_large")
    /\ UNCHANGED <<sc, io, eng, fs, st, peer, cl, txn>>

\* a burst that counts its data before the write is known to have succeeded
SendSmallFileCountsFirst ==
    /\ pc = "send_small"
    /\ IF ~SendSmallFileAccepts(loc.pm)
         THEN Return(FALSE) /\ UNCHANGED <<sc, io, txn>>
         ELSE \E wok \in BOOLEAN :
                /\ Emit(SmallFileWrite(loc.pm, loc.dlen, loc.mtime, wok))
                /\ sc' = [sc EXCEPT !.total_bytes = @ + loc.dlen]
                /\ IF wok THEN Goto("copy_done") ELSE Return(FALSE)
    /\ UNCHANGED <<eng, loc, fs, st, peer, cl>>

SendSmallFile ==
    /\ pc = "send_small"
    /\ IF ~SendSmallFileAccepts(loc.pm)
         THEN Return(FALSE) /\ UNCHANGED <<sc, io, txn>>
         ELSE \E wok \in BOOLEAN :
                /\ Emit(SmallFileWrite(loc.pm, loc.dlen, loc.mtime, wok))
                /\ IF wok
                     THEN /\ sc' = [sc EXCEPT !.total_bytes = @ + loc.dlen]
                          /\ Goto("copy_done")
                     ELSE Return(FALSE) /\ UNCHANGED sc
    /\ UNCHANGED <<eng, loc, fs, st, peer, cl>>

SendLargeFile ==
    /\ pc = "send_large"
    /\ \E wok \in SendRequestOutcomes(loc.pm) :
        /\ SendReq(io, "SEND", loc.pm, wok)
        /\ IF SendRequestResult(loc.pm, wok)
             THEN Goto("large_open")
             ELSE Return(FALSE)
    /\ UNCHANGED <<sc, eng, loc, fs, st, peer, cl>>

\* stat(lpath), then adb_open(lpath, O_RDONLY)
LargeOpen ==
    /\ pc = "large_open"
    /\ \E outcome \in {"stat fails", "open fails", "opened"} :
        IF outcome = "opened"
          THEN fs' = [fs EXCEPT !.lfd = "open"] /\ Goto("large_read")
          ELSE UNCHANGED fs /\ Return(FALSE)
    /\ UNCHANGED <<sc, io, eng, loc, st, peer, cl, txn>>

\* one turn of the loop: adb_read, then the chunk's write and the accounting
LargeChunk ==
    /\ pc = "large_read"
    /\ \/ /\ fs' = CloseLfd(fs)
          /\ Return(FALSE)
          /\ UNCHANGED <<sc, io, loc, txn>>
       \/ LET n == AdbRead(loc.size - loc.off, sc.max) IN
          IF n = 0
            THEN /\ fs' = CloseLfd(fs)
                 /\ Goto("large_done")
                 /\ UNCHANGED <<sc, io, loc, txn>>
            ELSE \E wok \in BOOLEAN :
                   /\ Emit(ChunkWrite(loc.off, n, wok))
                   /\ IF wok
                        THEN /\ sc' = [sc EXCEPT !.total_bytes = @ + n]
                             /\ loc' = [loc EXCEPT !.off = @ + n,
                                                   !.bytes_copied = @ + n]
                             /\ Goto("large_read")
                             /\ UNCHANGED fs
                        ELSE /\ fs' = CloseLfd(fs)
                             /\ Return(FALSE)
                             /\ UNCHANGED <<sc, loc>>
    /\ UNCHANGED <<eng, st, peer, cl>>

LargeDone ==
    /\ pc = "large_done"
    /\ \E wok \in BOOLEAN :
        /\ Emit(WriteEv(wok, SyncRequestSize, <<Hdr("DONE", loc.mtime)>>))
        /\ IF wok THEN Goto("copy_done") ELSE Return(FALSE)
    /\ UNCHANGED <<sc, eng, loc, fs, st, peer, cl>>

\* a CopyDone that takes every response but FAIL for success
CopyDoneUnknownIsOkay ==
    /\ pc = "copy_done"
    /\ \/ /\ Emit(ReadEv(FALSE, SyncRequestSize, <<>>))
          /\ Return(FALSE)
          /\ UNCHANGED loc
       \/ \E h \in CopyResponses :
            /\ Emit(ReadEv(TRUE, SyncRequestSize, <<h>>))
            /\ loc' = [loc EXCEPT !.msg = h]
            /\ IF h.id # "FAIL" THEN Return(TRUE)
               ELSE Goto("report_copy_failure")
    /\ UNCHANGED <<sc, eng, fs, st, peer, cl>>

\* if (!ReadFdExactly(fd, &msg.status, sizeof(msg.status))), then the id
CopyDone ==
    /\ pc = "copy_done"
    /\ \/ /\ Emit(ReadEv(FALSE, SyncRequestSize, <<>>))
          /\ Return(FALSE)
          /\ UNCHANGED loc
       \/ \E h \in CopyResponses :
            /\ Emit(ReadEv(TRUE, SyncRequestSize, <<h>>))
            /\ loc' = [loc EXCEPT !.msg = h]
            /\ IF h.id = "OKAY" THEN Return(TRUE)
               ELSE IF h.id # "FAIL" THEN Return(FALSE)
               ELSE Goto("report_copy_failure")
    /\ UNCHANGED <<sc, eng, fs, st, peer, cl>>

-----------------------------------------------------------------------------
(* ~SyncConnection *)

\* a destructor that closes right after the QUIT
DtorNoShutdown ==
    /\ pc = "dtor"
    /\ IF ~IsValid
         THEN pc' = "done" /\ UNCHANGED <<sc, io, txn>>
         ELSE \E wok \in SendRequestOutcomes(NoPath) :
                /\ SendReq(<<>>, "QUIT", NoPath, wok)
                /\ pc' = "done" /\ sc' = [sc EXCEPT !.fd = "closed"]
    /\ UNCHANGED <<stack, ret, eng, loc, fs, st, peer, cl>>

\* SendQuit, then ReadOrderlyShutdown when it was written, then adb_close
Dtor ==
    /\ pc = "dtor"
    /\ IF ~IsValid
         THEN pc' = "done" /\ UNCHANGED <<sc, io, txn>>
         ELSE \E wok \in SendRequestOutcomes(NoPath) :
                /\ SendReq(<<>>, "QUIT", NoPath, wok)
                /\ IF SendRequestResult(NoPath, wok)
                     THEN pc' = "dtor_shutdown" /\ UNCHANGED sc
                     ELSE pc' = "done" /\ sc' = [sc EXCEPT !.fd = "closed"]
    /\ UNCHANGED <<stack, ret, eng, loc, fs, st, peer, cl>>

\* the peer does its orderly shutdown once it has the QUIT
PeerClose ==
    /\ pc = "dtor_shutdown"
    /\ peer = "open"
    /\ peer' = "closed"
    /\ UNCHANGED <<pc, stack, ret, sc, io, eng, loc, fs, st, cl, txn>>

\* ReadOrderlyShutdown blocks until the peer's end of stream; what a command
\* that failed left unread on the stream ends the wait early
DtorShutdown ==
    /\ pc = "dtor_shutdown"
    /\ \/ /\ peer = "closed"
          /\ Emit(ReadEv(TRUE, 0, <<>>))
       \/ /\ ~eng.result
          /\ Emit(ReadEv(FALSE, 1, <<>>))
    /\ sc' = [sc EXCEPT !.fd = "closed"]
    /\ pc' = "done"
    /\ UNCHANGED <<stack, ret, eng, loc, fs, st, peer, cl>>

-----------------------------------------------------------------------------
(* do_sync_pull *)

NoEng == [cmd |-> "", srcs |-> <<>>, dst |-> NoPath, slash |-> FALSE,
          flag |-> FALSE, idx |-> 1, success |-> TRUE, result |-> FALSE,
          isdir |-> FALSE]

\* the local path of a source copied into the directory dst
InDir(dir, src) ==
    [name |-> <<dir.name, src.name>>, len |-> dir.len + 1 + src.base, base |-> src.base]

\* SyncConnection(): adb_connect succeeds or not
Connect ==
    /\ pc = "connect"
    /\ \E connected \in BOOLEAN :
        IF connected
          THEN /\ sc' = [sc EXCEPT !.fd = "open"]
               /\ pc' = eng.cmd
               /\ UNCHANGED eng
          ELSE /\ sc' = [sc EXCEPT !.fd = "bad"]
               /\ EngReturn(FALSE)
    /\ UNCHANGED <<stack, ret, io, loc, fs, st, peer, cl, txn>>

\* stat(dst) and the checks on it; st.st_mode is read although stat failed
DoSyncPull ==
    /\ pc = "pull"
    /\ \E local \in {"dir", "file", "enoent", "eacces"}, garbage \in BOOLEAN :
        LET failed == local \in {"enoent", "eacces"}
            dst_isdir == IF failed THEN garbage ELSE local = "dir"
        IN  /\ ~failed => ~garbage
            /\ IF failed /\ (Len(eng.srcs) # 1 \/ local # "enoent")
                 THEN EngReturn(FALSE)
               ELSE IF ~dst_isdir /\ (Len(eng.srcs) > 1 \/ eng.slash)
                 THEN EngReturn(FALSE)
               ELSE /\ pc' = "pull_loop"
                    /\ eng' = [eng EXCEPT !.isdir = (local = "dir")]
    /\ UNCHANGED <<stack, ret, sc, io, loc, fs, st, peer, cl, txn>>

\* the locals of one source's transaction go out of scope with it
TxnEnd == io' = <<>> /\ loc' = NoLoc /\ fs' = NoFs /\ st' = NoStat

PullLoop ==
    /\ pc = "pull_loop"
    /\ IF eng.idx > Len(eng.srcs)
         THEN EngReturn(eng.success) /\ UNCHANGED <<stack, ret, st>>
         ELSE /\ st' = [NoStat EXCEPT !.path = eng.srcs[eng.idx],
                                      !.want = {"time", "mode"}]
              /\ Call("sync_stat", "pull_src")
              /\ UNCHANGED <<ret, eng>>
    /\ UNCHANGED <<sc, io, loc, fs, peer, cl, txn>>

\* a loop that keeps only the last source's result
NextSrcLastOnly(ok) == [eng EXCEPT !.idx = @ + 1, !.success = ok]

\* success &= ..., or success = false, then the next src_path
NextSrc(ok) == [eng EXCEPT !.idx = @ + 1, !.success = @ /\ ok]

\* the source's remote mode decides; a file is received into dst or dst/basename
PullSrc ==
    /\ pc = "pull_src"
    /\ IF ~ret
         THEN EngReturn(FALSE) /\ TxnEnd /\ UNCHANGED <<stack, ret>>
       ELSE IF st.mode = 0
         THEN eng' = NextSrc(FALSE) /\ Goto("pull_loop") /\ TxnEnd
       ELSE IF S_ISREG(st.mode) \/ S_ISLNK(st.mode) \/ S_ISCHR(st.mode) \/ S_ISBLK(st.mode)
         THEN \E old \in {"absent", "old"} :
                /\ loc' = [NoLoc EXCEPT
                             !.rpath = eng.srcs[eng.idx],
                             !.lpath = IF eng.isdir
                                         THEN InDir(eng.dst, eng.srcs[eng.idx])
                                         ELSE eng.dst]
                /\ fs' = [NoFs EXCEPT !.file = old]
                /\ Call("sync_recv", "pull_recvd")
                /\ UNCHANGED <<ret, io, st, eng>>
       ELSE eng' = NextSrc(FALSE) /\ Goto("pull_loop") /\ TxnEnd
    /\ UNCHANGED <<sc, peer, cl, txn>>

\* after sync_recv: copy_attrs && set_time_and_mode(dst_path, time, mode)
PullRecvd ==
    /\ pc = "pull_recvd"
    /\ IF ~ret
         THEN eng' = NextSrc(FALSE)
         ELSE \E attrs_fail \in (IF eng.flag THEN BOOLEAN ELSE {FALSE}) :
                eng' = NextSrc(~attrs_fail)
    /\ Goto("pull_loop")
    /\ TxnEnd
    /\ UNCHANGED <<sc, peer, cl, txn>>

-----------------------------------------------------------------------------
(* copy_local_dir_remote *)

RECURSIVE BitAnd(_, _)
\* a & b on naturals
BitAnd(a, b) ==
    IF a = 0 \/ b = 0 THEN 0
    ELSE (a % 2) * (b % 2) + 2 * BitAnd(a \div 2, b \div 2)

\* the flag of ci after the reply (mode, size, timestamp) to its STAT
SkipFlag(ci, mode, size, timestamp) ==
    IF size = ci.size
         /\ \/ S_ISREG(BitAnd(ci.mode, mode)) /\ timestamp = ci.time
            \/ S_ISLNK(BitAnd(ci.mode, mode)) /\ timestamp >= ci.time
      THEN 1 ELSE ci.flag

\* a loop that holds the k-th reply against the item after the k-th
FlaggedNext(list, k, r) ==
    LET j == (k % Len(list)) + 1 IN
    [list EXCEPT ![j].flag = SkipFlag(list[j], r.mode, r.size, r.time)]

\* the file list after the k-th turn of the second loop, whose reply is r
Flagged(list, k, r) ==
    [list EXCEPT ![k].flag = SkipFlag(list[k], r.mode, r.size, r.time)]

\* rpath with the '/' the function appends when it is missing
WithSlash(path, slash) ==
    IF slash THEN path ELSE [path EXCEPT !.len = @ + 1]

\* mkcopyinfo and the lstat fields of the k-th file found
CopyInfo(root, k, mode) ==
    [src |-> <<"src", k>>,
     dst |-> [name |-> <<root.name, k>>, len |-> root.len + BaseLen, base |-> BaseLen],
     time |-> LocalTime, mode |-> mode, size |-> 10, flag |-> 0]

\* the file lists local_build_list may produce: regular files and symlinks
FileLists(root) ==
    UNION {{[k \in 1..n |-> CopyInfo(root, k, m[k])] : m \in [1..n -> {RegMode, LnkMode}]} :
           n \in 0..MaxFiles}

\* the slashes, then local_build_list
Cldr ==
    /\ pc = "cldr"
    /\ \/ Return(FALSE) /\ UNCHANGED cl
       \/ \E list \in FileLists(cl.rpath) :
            /\ cl' = [cl EXCEPT !.list = list, !.k = 1]
            /\ Goto(IF cl.check_timestamps THEN "cldr_stat_send" ELSE "cldr_push")
    /\ UNCHANGED <<sc, io, eng, loc, fs, st, peer, txn>>

\* first loop of the skip phase: one STAT request per file
CldrStatSend ==
    /\ pc = "cldr_stat_send"
    /\ IF cl.k > Len(cl.list)
         THEN /\ cl' = [cl EXCEPT !.k = 1]
              /\ Goto("cldr_stat_read")
              /\ UNCHANGED <<io, txn>>
         ELSE LET path == cl.list[cl.k].dst IN
              \E wok \in SendRequestOutcomes(path) :
                /\ SendReq(io, "STAT", path, wok)
                /\ IF SendRequestResult(path, wok)
                     THEN cl' = [cl EXCEPT !.k = @ + 1] /\ Goto("cldr_stat_send")
                     ELSE Return(FALSE) /\ UNCHANGED cl
    /\ UNCHANGED <<sc, eng, loc, fs, st, peer>>

\* second loop of the skip phase: sync_finish_stat, then the skip test
CldrStatRead ==
    /\ pc = "cldr_stat_read"
    /\ IF cl.k > Len(cl.list)
         THEN /\ cl' = [cl EXCEPT !.k = 1]
              /\ Goto("cldr_push")
              /\ io' = <<>>
              /\ UNCHANGED txn
         ELSE \/ /\ Emit(ReadEv(FALSE, SyncStatSize, <<>>))
                 /\ Return(FALSE)
                 /\ UNCHANGED cl
              \/ \E r \in {FailReply} \cup
                           {StatReply(m, s, t) : m \in StatReplyModes,
                                                 s \in StatReplySizes,
                                                 t \in StatReplyTimes} :
                   /\ Emit(ReadEv(TRUE, SyncStatSize, <<r>>))
                   /\ IF r.id # "STAT"
                        THEN Return(FALSE) /\ UNCHANGED cl
                        ELSE /\ cl' = [cl EXCEPT !.list = Flagged(@, cl.k, r),
                                                  !.k = @ + 1]
                             /\ Goto("cldr_stat_read")
    /\ UNCHANGED <<sc, eng, loc, fs, st, peer>>

\* a third loop that transfers also when list_only is set
CldrPushTransfersAnyway ==
    /\ pc = "cldr_push"
    /\ IF cl.k > Len(cl.list)
         THEN Return(TRUE) /\ UNCHANGED <<cl, loc, io>>
         ELSE LET ci == cl.list[cl.k] IN
              IF ci.flag # 0
                THEN /\ cl' = [cl EXCEPT !.skipped = @ + 1, !.k = @ + 1]
                     /\ Goto("cldr_push")
                     /\ UNCHANGED <<loc, io>>
              ELSE /\ loc' = [NoLoc EXCEPT !.lpath = [NoPath EXCEPT !.name = ci.src],
                                           !.rpath = ci.dst, !.mtime = ci.time,
                                           !.mode = ci.mode, !.size = ci.size]
                   /\ io' = <<>>
                   /\ Call("sync_send", "cldr_sent")
                   /\ UNCHANGED <<ret, cl>>
    /\ UNCHANGED <<sc, eng, fs, st, peer, txn>>

\* third loop: push what is not flagged, or print "would push: src -> dst",
\* and count
CldrPush ==
    /\ pc = "cldr_push"
    /\ IF cl.k > Len(cl.list)
         THEN Return(TRUE) /\ UNCHANGED <<cl, loc, io>>
         ELSE LET ci == cl.list[cl.k] IN
              IF ci.flag # 0
                THEN /\ cl' = [cl EXCEPT !.skipped = @ + 1, !.k = @ + 1]
                     /\ Goto("cldr_push")
                     /\ UNCHANGED <<loc, io>>
              ELSE IF cl.list_only
                THEN /\ cl' = [cl EXCEPT !.pushed = @ + 1, !.k = @ + 1,
                                          !.would_push = Append(@, [src |-> ci.src,
                                                                    dst |-> ci.dst])]
                     /\ Goto("cldr_push")
                     /\ UNCHANGED <<loc, io>>
              ELSE /\ loc' = [NoLoc EXCEPT !.lpath = [NoPath EXCEPT !.name = ci.src],
                                           !.rpath = ci.dst, !.mtime = ci.time,
                                           !.mode = ci.mode, !.size = ci.size]
                   /\ io' = <<>>
                   /\ Call("sync_send", "cldr_sent")
                   /\ UNCHANGED <<ret, cl>>
    /\ UNCHANGED <<sc, eng, fs, st, peer, txn>>

CldrSent ==
    /\ pc = "cldr_sent"
    /\ IF ~ret
         THEN Return(FALSE) /\ UNCHANGED cl
         ELSE cl' = [cl EXCEPT !.pushed = @ + 1, !.k = @ + 1] /\ Goto("cldr_push")
    /\ TxnEnd
    /\ UNCHANGED <<sc, eng, peer, txn>>

-----------------------------------------------------------------------------
(* do_sync_push *)

\* sync_stat(sc, dst, nullptr, &mode, nullptr)
DoSyncPush ==
    /\ pc = "push"
    /\ st' = [NoStat EXCEPT !.path = eng.dst, !.want = {"mode"}]
    /\ Call("sync_stat", "push_dst")
    /\ UNCHANGED <<ret, sc, io, eng, loc, fs, peer, cl, txn>>

\* a check of the destination that lets several sources through
PushDstAllowsMany ==
    /\ pc = "push_dst"
    /\ LET dst_isdir == st.mode # 0 /\ S_ISDIR(st.mode) IN
       IF ~ret
         THEN EngReturn(FALSE)
       ELSE IF ~dst_isdir /\ eng.slash
         THEN EngReturn(FALSE)
       ELSE pc' = "push_loop" /\ eng' = [eng EXCEPT !.isdir = dst_isdir]
    /\ TxnEnd
    /\ UNCHANGED <<stack, ret, sc, peer, cl, txn>>

\* dst_isdir, and the two tests made when dst is not a directory
PushDst ==
    /\ pc = "push_dst"
    /\ LET dst_isdir == st.mode # 0 /\ S_ISDIR(st.mode) IN
       IF ~ret
         THEN EngReturn(FALSE)
       ELSE IF ~dst_isdir /\ (Len(eng.srcs) > 1 \/ eng.slash)
         THEN EngReturn(FALSE)
       ELSE pc' = "push_loop" /\ eng' = [eng EXCEPT !.isdir = dst_isdir]
    /\ TxnEnd
    /\ UNCHANGED <<stack, ret, sc, peer, cl, txn>>

\* what stat(src_path) may find: nothing, a directory, or a file of some mode
LocalFiles ==
    {[mode |-> RegMode, size |-> n] : n \in FileSizes} \cup {[mode |-> FifoMode, size |-> 0]}

PushLoop ==
    /\ pc = "push_loop"
    /\ IF eng.idx > Len(eng.srcs)
         THEN EngReturn(eng.success) /\ UNCHANGED <<stack, ret, loc, cl>>
         ELSE LET src == eng.srcs[eng.idx] IN
              \/ /\ eng' = NextSrc(FALSE)
                 /\ Goto("push_loop")
                 /\ UNCHANGED <<loc, cl>>
              \/ /\ cl' = [NoCl EXCEPT !.rpath = WithSlash(eng.dst, eng.slash)]
                 /\ Call("cldr", "push_returned")
                 /\ UNCHANGED <<ret, eng, loc>>
              \/ \E f \in LocalFiles :
                   /\ loc' = [NoLoc EXCEPT
                                !.lpath = src,
                                !.rpath = IF eng.isdir THEN InDir(eng.dst, src)
                                                       ELSE eng.dst,
                                !.mtime = LocalTime, !.mode = f.mode,
                                !.size = f.size]
                   /\ Call("sync_send", "push_returned")
                   /\ UNCHANGED <<ret, eng, cl>>
    /\ UNCHANGED <<sc, io, fs, st, peer, txn>>

\* success &= the result of sync_send or copy_local_dir_remote
PushReturned ==
    /\ pc = "push_returned"
    /\ eng' = NextSrc(ret)
    /\ cl' = NoCl
    /\ Goto("push_loop")
    /\ TxnEnd
    /\ UNCHANGED <<sc, peer, txn>>

-----------------------------------------------------------------------------
(* do_sync_sync *)

DoSyncSync ==
    /\ pc = "sync"
    /\ cl' = [NoCl EXCEPT !.rpath = WithSlash(eng.dst, eng.slash),
                          !.check_timestamps = TRUE, !.list_only = eng.flag]
    /\ Call("cldr", "sync_returned")
    /\ UNCHANGED <<ret, sc, io, eng, loc, fs, st, peer, txn>>

SyncReturned ==
    /\ pc = "sync_returned"
    /\ EngReturn(ret)
    /\ UNCHANGED <<stack, ret, sc, io, loc, fs, st, peer, cl, txn>>

-----------------------------------------------------------------------------
(* sync_ls, do_sync_ls *)

\* what the service may send where sync_ls awaits a dent
LsHeaders ==
    {Dent("DONE", 0, 0, 0, 0), Dent("FAIL", 0, 0, 0, 0)}
    \cup (IF Len(loc.calls) < MaxDents
            THEN {Dent("DENT", e[1], e[2], e[3], n) :
                    e \in {<<RegMode, 10, LocalTime>>, <<DirMode, 0, LocalTime + 1>>},
                    n \in {1, MaxNameLength, MaxNameLength + 1}}
            ELSE {})

\* a length check that lets one byte too many through
NameTooLongOffByOne(d) == d.len > MaxNameLength + 1

\* len > 256
NameTooLong(d) == d.len > MaxNameLength

\* a callback list that takes the newest entry first
InvokeFirst(calls, d, name) ==
    <<[mode |-> d.mode, size |-> d.size, time |-> d.time, name |-> name]>> \o calls

\* func(msg.dent.mode, msg.dent.size, msg.dent.time, buf)
Invoke(calls, d, name) ==
    Append(calls, [mode |-> d.mode, size |-> d.size, time |-> d.time, name |-> name])

DoSyncLs ==
    /\ pc = "ls"
    /\ loc' = [NoLoc EXCEPT !.rpath = eng.dst]
    /\ Call("sync_ls", "ls_returned")
    /\ UNCHANGED <<ret, sc, io, eng, fs, st, peer, cl, txn>>

SyncLs ==
    /\ pc = "sync_ls"
    /\ \E wok \in SendRequestOutcomes(loc.rpath) :
        /\ SendReq(io, "LIST", loc.rpath, wok)
        /\ IF SendRequestResult(loc.rpath, wok)
             THEN Goto("ls_dent")
             ELSE Return(FALSE)
    /\ UNCHANGED <<sc, eng, loc, fs, st, peer, cl>>

LsDent ==
    /\ pc = "ls_dent"
    /\ \/ /\ Emit(ReadEv(FALSE, SyncDentSize, <<>>))
          /\ Return(FALSE)
          /\ UNCHANGED loc
       \/ \E d \in LsHeaders :
            /\ Emit(ReadEv(TRUE, SyncDentSize, <<d>>))
            /\ loc' = [loc EXCEPT !.msg = d]
            /\ IF d.id = "DONE" THEN Return(TRUE)
               ELSE IF d.id # "DENT" THEN Return(FALSE)
               ELSE IF NameTooLong(d) THEN Return(FALSE)
               ELSE Goto("ls_name")
    /\ UNCHANGED <<sc, eng, fs, st, peer, cl>>

\* the read of the name, then the callback
LsName ==
    /\ pc = "ls_name"
    /\ \E rok \in IoOutcomes(loc.msg.len), name \in {"a", "b"} :
        IF rok
          THEN /\ Emit(ReadEv(TRUE, loc.msg.len, <<NameBytes(name, loc.msg.len)>>))
               /\ loc' = [loc EXCEPT !.calls = Invoke(@, loc.msg, name)]
               /\ Goto("ls_dent")
          ELSE /\ name = "a"
               /\ Emit(ReadEv(FALSE, loc.msg.len, <<>>))
               /\ Return(FALSE)
               /\ UNCHANGED loc
    /\ UNCHANGED <<sc, eng, fs, st, peer, cl>>

LsReturned ==
    /\ pc = "ls_returned"
    /\ EngReturn(ret)
    /\ UNCHANGED <<stack, ret, sc, io, loc, fs, st, peer, cl, txn>>

-----------------------------------------------------------------------------
(* mkcopyinfo, IsDotOrDotDot, local_build_list *)

(* A path of the walk is the sequence of its components; every directory path
   ends in a slash, so the string is the components joined by '/'.  The calls
   of the recursion are the frames of cl.frames, the running call first;
   cl.list is *filelist; cl.opened and cl.closed count opendir and closedir. *)

\* mkcopyinfo(spath, dpath, name, isdir): time, mode and size are 0
mkcopyinfo(spath, dpath, name, isdir) ==
    [src |-> Append(spath, name), dst |-> Append(dpath, name), isdir |-> isdir,
     time |-> 0, mode |-> 0, size |-> 0, flag |-> 0]

IsDotOrDotDot(name) == name \in {".", ".."}

\* a call of local_build_list or remote_build_list that has just been entered
Frame(src, dst) ==
    [src |-> src, dst |-> dst, dir |-> "null", dirlist |-> <<>>]

Top == Head(cl.frames)
SetTop(f) == <<f>> \o Tail(cl.frames)

\* the names readdir may give, and what lstat may say of the entry
DirNames == {".", "..", "a"}
LstatModes == {0, DirMode, RegMode, LnkMode, FifoMode}

\* a directory that stays open while its subdirectories are walked
ResetDirForgotten(f) == f

\* dir.reset(), and the deleter of the unique_ptr: closedir unless null
ResetDir(f) == [f EXCEPT !.dir = "null"]

\* the closedir calls that turn the handle of f into that of g
Closes(f, g) == IF f.dir = "open" /\ g.dir = "null" THEN 1 ELSE 0

\* the return of a call of the walk: its frame goes, the caller goes on
WalkReturn(v, back) ==
    /\ ret' = v
    /\ pc' = IF Len(cl.frames) = 1 THEN "walk_done" ELSE back
    /\ UNCHANGED stack

\* opendir(lpath)
LblOpen ==
    /\ pc = "lbl"
    /\ \E opened \in BOOLEAN :
        IF opened
          THEN /\ cl' = [cl EXCEPT !.frames = SetTop([Top EXCEPT !.dir = "open"]),
                                   !.opened = @ + 1]
               /\ pc' = "lbl_read"
               /\ UNCHANGED <<stack, ret>>
          ELSE /\ cl' = [cl EXCEPT !.frames = Tail(@)]
               /\ WalkReturn(FALSE, "lbl_recurse")
    /\ UNCHANGED <<sc, io, eng, loc, fs, st, peer, txn>>

\* one readdir and the body of the loop; at the end of the directory, dir.reset()
LblRead ==
    /\ pc = "lbl_read"
    /\ \/ /\ cl' = [cl EXCEPT !.frames = SetTop(ResetDir(Top)),
                              !.closed = @ + Closes(Top, ResetDir(Top))]
          /\ pc' = "lbl_recurse"
       \/ /\ cl.ents < MaxEnts
          /\ \E name \in DirNames, too_long \in BOOLEAN, mode \in LstatModes :
               /\ too_long => mode = 0
               /\ pc' = "lbl_read"
               /\ IF IsDotOrDotDot(name) \/ too_long \/ mode = 0
                    THEN cl' = [cl EXCEPT !.ents = @ + 1]
                  ELSE IF S_ISDIR(mode)
                    THEN cl' = [cl EXCEPT !.ents = @ + 1,
                                  !.frames = SetTop([Top EXCEPT !.dirlist =
                                      Append(@, mkcopyinfo(Top.src, Top.dst, name, TRUE))])]
                  ELSE IF ~S_ISREG(mode) /\ ~S_ISLNK(mode)
                    THEN cl' = [cl EXCEPT !.ents = @ + 1]
                  ELSE cl' = [cl EXCEPT !.ents = @ + 1,
                                !.list = Append(@,
                                    [mkcopyinfo(Top.src, Top.dst, name, FALSE)
                                       EXCEPT !.time = LocalTime, !.mode = mode,
                                              !.size = 10])]
    /\ UNCHANGED <<stack, ret, sc, io, eng, loc, fs, st, peer, txn>>

\* the loop over dirlist: one recursive call, or return 0 and the destructor
LblRecurse ==
    /\ pc = "lbl_recurse"
    /\ IF Top.dirlist = <<>>
         THEN /\ cl' = [cl EXCEPT !.frames = Tail(@),
                                  !.closed = @ + Closes(Top, [Top EXCEPT !.dir = "null"])]
              /\ WalkReturn(TRUE, "lbl_recurse")
         ELSE LET ci == Head(Top.dirlist) IN
              /\ cl' = [cl EXCEPT !.frames =
                           <<Frame(ci.src, ci.dst)>>
                             \o SetTop([Top EXCEPT !.dirlist = Tail(@)])]
              /\ pc' = "lbl"
              /\ UNCHANGED <<stack, ret>>
    /\ UNCHANGED <<sc, io, eng, loc, fs, st, peer, txn>>

-----------------------------------------------------------------------------
(* remote_build_list *)

\* the path of a directory of the walk as SendRequest takes it
WalkPath(src) == [name |-> src, len |-> BaseLen * Len(src), base |-> BaseLen]

\* the names the service may list, by their length
NamesOfLen(n) == {name \in DirNames : (IF name = ".." THEN 2 ELSE 1) = n}

\* the headers the service may send next in answer to the LIST of a directory
RblHeaders ==
    {Dent("DONE", 0, 0, 0, 0), Dent("FAIL", 0, 0, 0, 0)}
    \cup (IF cl.ents < MaxEnts
            THEN {Dent("DENT", mode, 10, LocalTime, n) :
                    mode \in {DirMode, RegMode, LnkMode, FifoMode}, n \in {1, 2}}
            ELSE {})

\* the lambda of remote_build_list
Callback(c, mode, size, time, name) ==
    LET top == Head(c.frames) IN
    IF S_ISDIR(mode)
      THEN IF IsDotOrDotDot(name) THEN c
           ELSE [c EXCEPT !.frames = <<[top EXCEPT !.dirlist =
                             Append(@, mkcopyinfo(top.src, top.dst, name, TRUE))]>>
                           \o Tail(c.frames)]
    ELSE IF S_ISREG(mode) \/ S_ISLNK(mode)
      THEN [c EXCEPT !.list = Append(@, [mkcopyinfo(top.src, top.dst, name, FALSE)
                                           EXCEPT !.time = time, !.mode = mode,
                                                  !.size = size])]
    ELSE c

\* a false return of remote_build_list: the frame goes
RblFails ==
    /\ cl' = [cl EXCEPT !.frames = Tail(@)]
    /\ WalkReturn(FALSE, "rbl_returned")

\* sync_ls(sc, rpath, callback): the LIST request
RblLs ==
    /\ pc = "rbl"
    /\ \E wok \in SendRequestOutcomes(WalkPath(Top.src)) :
        /\ SendReq(<<>>, "LIST", WalkPath(Top.src), wok)
        /\ IF SendRequestResult(WalkPath(Top.src), wok)
             THEN pc' = "rbl_dent" /\ UNCHANGED <<stack, ret, cl>>
             ELSE RblFails
    /\ UNCHANGED <<sc, eng, loc, fs, st, peer>>

\* sync_ls: the read of one dent header
RblDent ==
    /\ pc = "rbl_dent"
    /\ \/ /\ Emit(ReadEv(FALSE, SyncDentSize, <<>>))
          /\ RblFails
          /\ UNCHANGED loc
       \/ \E d \in RblHeaders :
            /\ Emit(ReadEv(TRUE, SyncDentSize, <<d>>))
            /\ loc' = [loc EXCEPT !.msg = d]
            /\ IF d.id = "DONE"
                 THEN pc' = "rbl_recurse" /\ UNCHANGED <<stack, ret, cl>>
               ELSE IF d.id # "DENT" \/ NameTooLong(d)
                 THEN RblFails
               ELSE pc' = "rbl_name" /\ UNCHANGED <<stack, ret, cl>>
    /\ UNCHANGED <<sc, eng, fs, st, peer>>

\* sync_ls: the read of the name, then the callback
RblName ==
    /\ pc = "rbl_name"
    /\ \E rok \in BOOLEAN, name \in NamesOfLen(loc.msg.len) :
        IF rok
          THEN /\ Emit(ReadEv(TRUE, loc.msg.len, <<NameBytes(name, loc.msg.len)>>))
               /\ cl' = [Callback(cl, loc.msg.mode, loc.msg.size, loc.msg.time, name)
                           EXCEPT !.ents = @ + 1]
               /\ pc' = "rbl_dent"
               /\ UNCHANGED <<stack, ret>>
          ELSE /\ name = CHOOSE x \in NamesOfLen(loc.msg.len) : TRUE
               /\ Emit(ReadEv(FALSE, loc.msg.len, <<>>))
               /\ RblFails
    /\ UNCHANGED <<sc, eng, loc, fs, st, peer>>

\* while (!dirlist.empty()): the directory at the back, or return true
RblRecurse ==
    /\ pc = "rbl_recurse"
    /\ IF Top.dirlist = <<>>
         THEN /\ cl' = [cl EXCEPT !.frames = Tail(@)]
              /\ WalkReturn(TRUE, "rbl_returned")
         ELSE LET current == Top.dirlist[Len(Top.dirlist)] IN
              /\ cl' = [cl EXCEPT !.frames =
                           <<Frame(current.src, current.dst)>>
                             \o SetTop([Top EXCEPT !.dirlist =
                                          SubSeq(@, 1, Len(@) - 1)])]
              /\ pc' = "rbl"
              /\ UNCHANGED <<stack, ret>>
    /\ UNCHANGED <<sc, io, eng, loc, fs, st, peer, txn>>

\* if (!remote_build_list(...)) return false
RblReturned ==
    /\ pc = "rbl_returned"
    /\ IF ret
         THEN pc' = "rbl_recurse" /\ UNCHANGED <<stack, ret, cl>>
         ELSE RblFails
    /\ UNCHANGED <<sc, io, eng, loc, fs, st, peer, txn>>

-----------------------------------------------------------------------------
(* ReportCopyFailure on the whole range of msglen *)

(* msg.status.msglen is a 32-bit unsigned; a value is kept as its two 16-bit
   halves <<high, low>>, and the arithmetic is done half by half. *)

Half == 65536

\* a + 1 in 32-bit unsigned arithmetic
Inc32(a) ==
    LET low == a[2] + 1 IN
    <<(a[1] + low \div Half) % Half, low % Half>>

\* a < b on 32-bit values
Less32(a, b) == a[1] < b[1] \/ (a[1] = b[1] /\ a[2] < b[2])

\* the values of a half, and of msglen, the checks are made with
Halves == {0, 1, 9, 32767, 32768, 65534, 65535}
MsgLens32 == Halves \X Halves

\* std::vector<char> buf(msg.status.msglen + 1)
RcfAlloc ==
    /\ pc = "rcf_alloc"
    /\ loc' = [loc EXCEPT !.bufsize = Inc32(loc.msglen)]
    /\ pc' = "rcf_read"
    /\ UNCHANGED <<stack, ret, sc, io, eng, fs, st, peer, cl, txn>>

\* ReadFdExactly(fd, &buf[0], msg.status.msglen): the bytes go into the buffer,
\* or past its end when the buffer is no longer than msglen
RcfRead ==
    /\ pc = "rcf_read"
    /\ \E rok \in BOOLEAN, survives \in BOOLEAN :
        /\ Less32(loc.msglen, loc.bufsize) => survives
        /\ pc' = IF ~survives THEN "crashed"
                 ELSE IF rok THEN "rcf_term" ELSE "rcf_done"
        /\ ret' = FALSE
    /\ UNCHANGED <<stack, sc, io, eng, loc, fs, st, peer, cl, txn>>

\* buf[msg.status.msglen] = 0, the Error, return false
RcfTerminate ==
    /\ pc = "rcf_term"
    /\ \E survives \in BOOLEAN :
        /\ Less32(loc.msglen, loc.bufsize) => survives
        /\ pc' = IF survives THEN "rcf_done" ELSE "crashed"
    /\ UNCHANGED <<stack, ret, sc, io, eng, loc, fs, st, peer, cl, txn>>

-----------------------------------------------------------------------------
(* libcutils/atomic.c: cas, android_atomic_release_cas, android_atomic_add,
   _inc, _dec, _and, _or *)

(* The threads share one address.  In this section st.addr is the int32_t at
   the address, st.init its first value, st.order the calls in the order in
   which their compare-and-swap succeeded; loc[t] holds the call of thread t:
   its operation and operand, its oldValue, its position and its result. *)

Threads == 1..MaxThreads

RECURSIVE BitOr(_, _)
\* a | b on naturals
BitOr(a, b) ==
    IF a = 0 THEN b
    ELSE IF b = 0 THEN a
    ELSE (IF a % 2 = 1 \/ b % 2 = 1 THEN 1 ELSE 0) + 2 * BitOr(a \div 2, b \div 2)

\* the calls a thread may make: inc is add(1), dec is add(-1)
AtomicCalls ==
    {[op |-> "add", value |-> 1], [op |-> "add", value |-> -1],
     [op |-> "add", value |-> 2], [op |-> "and", value |-> 6],
     [op |-> "or", value |-> 9]}

\* the new value a call computes from oldValue
NewValue(call, oldValue) ==
    IF call.op = "add" THEN oldValue + call.value
    ELSE IF call.op = "and" THEN BitAnd(oldValue, call.value)
    ELSE BitOr(oldValue, call.value)

\* a compare-and-swap that stores without comparing
CasStoresAnyway(oldvalue, newvalue, mem) == [xchg |-> 0, mem |-> newvalue]

\* lock; cmpxchg %ecx, (%edx); setne %al; andl $1, %eax
cas(oldvalue, newvalue, mem) ==
    IF mem = oldvalue THEN [xchg |-> 0, mem |-> newvalue]
                      ELSE [xchg |-> 1, mem |-> mem]

\* ANDROID_MEMBAR_FULL(), then cas
android_atomic_release_cas(oldvalue, newvalue, mem) == cas(oldvalue, newvalue, mem)

\* oldValue = *addr
AtomicLoad(t) ==
    /\ pc = "atomic"
    /\ loc[t].at = "load"
    /\ loc' = [loc EXCEPT ![t].oldValue = st.addr, ![t].at = "cas"]
    /\ UNCHANGED <<pc, stack, ret, sc, io, eng, fs, st, peer, cl, txn>>

\* while (android_atomic_release_cas(oldValue, new, addr)); return oldValue
AtomicCas(t) ==
    /\ pc = "atomic"
    /\ loc[t].at = "cas"
    /\ LET r == android_atomic_release_cas(loc[t].oldValue,
                                           NewValue(loc[t].call, loc[t].oldValue),
                                           st.addr) IN
       IF r.xchg = 0
         THEN /\ st' = [st EXCEPT !.addr = r.mem,
                                  !.order = Append(@, [t |-> t, before |-> st.addr])]
              /\ loc' = [loc EXCEPT ![t].at = "returned",
                                    ![t].result = loc[t].oldValue]
         ELSE /\ st' = [st EXCEPT !.addr = r.mem]
              /\ loc' = [loc EXCEPT ![t].at = "load"]
    /\ UNCHANGED <<pc, stack, ret, sc, io, eng, fs, peer, cl, txn>>

-----------------------------------------------------------------------------
(* Specifications *)

SrcLists ==
    UNION {[1..n -> {[name |-> "src", len |-> l, base |-> BaseLen] : l \in PathLens}] :
           n \in 1..MaxSrcs}

InitCommon ==
    /\ pc = "connect"
    /\ stack = <<>>
    /\ ret = FALSE
    /\ sc = [fd |-> "bad", total_bytes |-> 0, max |-> SYNC_DATA_MAX]
    /\ io = <<>>
    /\ loc = NoLoc
    /\ fs = NoFs
    /\ st = NoStat
    /\ peer = "open"
    /\ cl = NoCl
    /\ txn = "idle"

InitPull ==
    /\ InitCommon
    /\ \E srcs \in SrcLists, slash \in BOOLEAN, copy_attrs \in BOOLEAN :
        eng = [NoEng EXCEPT !.cmd = "pull", !.srcs = srcs,
                            !.dst = [name |-> "dst", len |-> BaseLen, base |-> BaseLen],
                            !.slash = slash, !.flag = copy_attrs]

NextPull ==
    \/ Connect \/ DoSyncPull \/ PullLoop \/ PullSrc \/ PullRecvd
    \/ SyncStatSend \/ SyncFinishStat
    \/ SyncRecv \/ RecvRequest \/ RecvCreat \/ RecvHdr \/ RecvPayload
    \/ RecvWrite \/ ReportCopyFailure
    \/ Dtor \/ PeerClose \/ DtorShutdown

SpecPull == InitPull /\ [][NextPull]_vars

InitPush ==
    /\ InitCommon
    /\ \E srcs \in {[i \in 1..n |-> [name |-> "src", len |-> BaseLen, base |-> BaseLen]] :
                      n \in 1..MaxSrcs},
          len \in DstLens, slash \in BOOLEAN :
        eng = [NoEng EXCEPT !.cmd = "push", !.srcs = srcs,
                            !.dst = [name |-> "dst", len |-> len, base |-> BaseLen],
                            !.slash = slash]

InitSync ==
    /\ InitCommon
    /\ \E len \in DstLens, slash \in BOOLEAN, list_only \in BOOLEAN :
        eng = [NoEng EXCEPT !.cmd = "sync",
                            !.dst = [name |-> "dst", len |-> len, base |-> BaseLen],
                            !.slash = slash, !.flag = list_only]

NextPush ==
    \/ Connect \/ DoSyncPush \/ PushDst \/ PushLoop \/ PushReturned
    \/ Cldr \/ CldrPush \/ CldrSent
    \/ SyncStatSend \/ SyncFinishStat
    \/ SyncSend \/ SendSmallFile \/ SendLargeFile \/ LargeOpen \/ LargeChunk
    \/ LargeDone \/ CopyDone \/ ReportCopyFailure
    \/ Dtor \/ PeerClose \/ DtorShutdown

\* do_sync_push
SpecPush == InitPush /\ [][NextPush]_vars

NextSync ==
    \/ Connect \/ DoSyncSync \/ SyncReturned
    \/ Cldr \/ CldrStatSend \/ CldrStatRead \/ CldrPush \/ CldrSent
    \/ SyncSend \/ SendSmallFile \/ CopyDone \/ ReportCopyFailure
    \/ Dtor \/ PeerClose \/ DtorShutdown

\* do_sync_sync
SpecSync == InitSync /\ [][NextSync]_vars

InitLs ==
    /\ InitCommon
    /\ \E len \in PathLens :
        eng = [NoEng EXCEPT !.cmd = "ls",
                            !.dst = [name |-> "path", len |-> len, base |-> BaseLen]]

NextLs ==
    \/ Connect \/ DoSyncLs \/ SyncLs \/ LsDent \/ LsName \/ LsReturned
    \/ Dtor \/ PeerClose \/ DtorShutdown

\* do_sync_ls
SpecLs == InitLs /\ [][NextLs]_vars

InitWalk ==
    /\ pc \in {"lbl", "rbl"} /\ stack = <<>> /\ ret = FALSE
    /\ cl = [NoCl EXCEPT !.frames =
                IF pc = "lbl" THEN <<Frame(<<"l">>, <<"r">>)>>
                              ELSE <<Frame(<<"r">>, <<"l">>)>>]
    /\ sc = [fd |-> "open", total_bytes |-> 0, max |-> SYNC_DATA_MAX]
    /\ io = <<>> /\ loc = NoLoc /\ fs = NoFs /\ st = NoStat
    /\ peer = "open" /\ txn = "idle"
    /\ eng = [NoEng EXCEPT !.cmd = "walk"]

NextWalk ==
    \/ LblOpen \/ LblRead \/ LblRecurse
    \/ RblLs \/ RblDent \/ RblName \/ RblRecurse \/ RblReturned

\* local_build_list, or remote_build_list, on a directory
SpecWalk == InitWalk /\ [][NextWalk]_vars

InitReport ==
    /\ pc = "rcf_alloc" /\ stack = <<>> /\ ret = FALSE
    /\ sc = [fd |-> "open", total_bytes |-> 0, max |-> SYNC_DATA_MAX]
    /\ io = <<>> /\ fs = NoFs /\ st = NoStat /\ cl = NoCl
    /\ peer = "open" /\ txn = "idle"
    /\ eng = [NoEng EXCEPT !.cmd = "report"]
    /\ \E n \in MsgLens32 : loc = [NoLoc EXCEPT !.msglen = n]

NextReport == RcfAlloc \/ RcfRead \/ RcfTerminate

\* ReportCopyFailure for a header of any msglen
SpecReport == InitReport /\ [][NextReport]_vars

InitAtomic ==
    /\ pc = "atomic" /\ stack = <<>> /\ ret = FALSE
    /\ sc = [fd |-> "bad", total_bytes |-> 0, max |-> SYNC_DATA_MAX]
    /\ io = <<>> /\ fs = NoFs /\ cl = NoCl
    /\ peer = "open" /\ txn = "idle"
    /\ eng = [NoEng EXCEPT !.cmd = "atomic"]
    /\ \E v \in {4, 7} : st = [addr |-> v, init |-> v, order |-> <<>>]
    /\ \E calls \in [Threads -> AtomicCalls] :
         loc = [t \in Threads |->
                  [call |-> calls[t], oldValue |-> 0, at |-> "load", result |-> 0]]

NextAtomic == \E t \in Threads : AtomicLoad(t) \/ AtomicCas(t)

\* several threads, one call each, on one address
SpecAtomic == InitAtomic /\ [][NextAtomic]_vars

\* the operations that open a local file or directory
SpecHandles ==
    (InitPull \/ InitPush \/ InitWalk) /\ [][NextPull \/ NextPush \/ NextWalk]_vars

NextAll ==
    \/ Connect \/ DoSyncPull \/ PullLoop \/ PullSrc \/ PullRecvd
    \/ SyncRecv \/ RecvRequest \/ RecvCreat \/ RecvHdr \/ RecvPayload \/ RecvWrite
    \/ DoSyncPush \/ PushDst \/ PushLoop \/ PushReturned
    \/ DoSyncSync \/ SyncReturned
    \/ DoSyncLs \/ SyncLs \/ LsDent \/ LsName \/ LsReturned
    \/ Cldr \/ CldrStatSend \/ CldrStatRead \/ CldrPush \/ CldrSent
    \/ SyncStatSend \/ SyncFinishStat
    \/ SyncSend \/ SendSmallFile \/ SendLargeFile \/ LargeOpen \/ LargeChunk
    \/ LargeDone \/ CopyDone \/ ReportCopyFailure
    \/ Dtor \/ PeerClose \/ DtorShutdown

\* the four commands
SpecAll == (InitPull \/ InitPush \/ InitSync \/ InitLs) /\ [][NextAll]_vars

\* the client runs on, and the peer closes its side once it has the QUIT
SpecPushFair ==
    /\ SpecPush
    /\ WF_vars(Dtor) /\ WF_vars(PeerClose) /\ WF_vars(DtorShutdown)

-----------------------------------------------------------------------------
(* Properties of sync_recv *)

\* the positions at which sync_recv has just returned to its caller
RecvReturned == pc \in {"pull_recvd"}

IsHdrRead(e, id) ==
    /\ e.op = "read" /\ e.ok /\ e.data # <<>>
    /\ e.data[1].k = "hdr" /\ e.data[1].id = id

LastIo == io[Len(io)]

\* C1: when sync_recv returns false after it created the destination, the
\* destination handle is closed (once) and the destination file does not exist.
C1_FailedRecvLeavesNoFile ==
    (RecvReturned /\ ~ret /\ fs.lfd # "none")
        => (fs.lfd = "closed" /\ fs.closes = 1 /\ fs.file = "absent")

\* one DATA frame was received and written, then the stream dropped
C1_Witness ==
    /\ RecvReturned /\ ~ret
    /\ loc.bytes_copied = SYNC_DATA_MAX
    /\ LastIo.op = "read" /\ ~LastIo.ok /\ LastIo.n = SyncRequestSize
    /\ fs.lfd = "closed" /\ fs.file = "absent"

\* C2: a DATA header longer than max_chunk ends sync_recv at once: it is the
\* last I/O of the receive, sync_recv returns false and the destination is
\* unlinked; a DATA header of at most max_chunk is followed by the read of
\* exactly its payload, and once that payload is read and written it is the
\* tail of the destination file.
C2_ChunkCeiling ==
    /\ \A i \in 1..Len(io) :
         IsHdrRead(io[i], "DATA") =>
           IF io[i].data[1].len > sc.max
             THEN /\ i = Len(io)
                  /\ RecvReturned /\ ~ret
                  /\ fs.file = "absent" /\ fs.data = <<>>
             ELSE /\ i = Len(io) => pc = "recv_payload"
                  /\ i < Len(io) => /\ io[i + 1].op = "read"
                                    /\ io[i + 1].n = io[i].data[1].len
    /\ (pc = "recv_hdr" /\ loc.msg.id = "DATA") =>
         /\ loc.msg.len <= sc.max
         /\ fs.file = "new"
         /\ fs.data[Len(fs.data)] = DataBytes(loc.off - loc.msg.len, loc.msg.len)
         /\ io[Len(io)].data = <<fs.data[Len(fs.data)]>>

\* a chunk of exactly max_chunk was written, the next header is one byte over
C2_Witness ==
    /\ RecvReturned /\ ~ret
    /\ loc.bytes_copied = SYNC_DATA_MAX
    /\ IsHdrRead(LastIo, "DATA") /\ LastIo.data[1].len = SYNC_DATA_MAX + 1
    /\ \E i \in 1..Len(io) :
         IsHdrRead(io[i], "DATA") /\ io[i].data[1].len = SYNC_DATA_MAX

-----------------------------------------------------------------------------
(* Properties of the requests *)

\* the request sites: where a request is about to be made, and with what path
RequestSites ==
    {[at |-> "sync_stat", path |-> st.path, on |-> TRUE],
     [at |-> "recv_request", path |-> loc.rpath, on |-> ret],
     [at |-> "send_large", path |-> loc.pm, on |-> TRUE],
     [at |-> "send_small", path |-> loc.pm, on |-> TRUE],
     [at |-> "sync_ls", path |-> loc.rpath, on |-> TRUE],
     [at |-> "cldr_stat_send", on |-> cl.k <= Len(cl.list),
      path |-> IF cl.k <= Len(cl.list) THEN cl.list[cl.k].dst ELSE NoPath]}

C3_Step ==
    \A site \in RequestSites :
      (pc = site.at /\ site.on) =>
        IF site.path.len > 1024
          THEN /\ io' = io /\ sc' = sc
               /\ ret' = FALSE /\ pc' = Head(stack)
          ELSE /\ Len(io') = Len(io) + 1
               /\ io'[Len(io')].op = "write"
               /\ io'[Len(io')].data[1].len = site.path.len
               /\ io'[Len(io')].data[2] = PathBytes(site.path)

\* C3: a request (STAT, LIST, RECV, SEND, the burst form) whose path or path,mode is
\* longer than 1024 bytes returns false with nothing written on the stream and
\* total_bytes unchanged; a path of at most 1024 bytes is written.
C3_LongPathRejected == [][C3_Step]_vars

\* a burst push turned down for a path,mode of 1025 bytes, nothing written
C3_Witness ==
    /\ pc = "push_returned" /\ ~ret
    /\ loc.pm.len = 1025 /\ loc.size < SYNC_DATA_MAX
    /\ io = <<>> /\ sc.total_bytes = 0

-----------------------------------------------------------------------------
(* Properties of sync_send *)

IsWrite(e, id) == e.op = "write" /\ e.data[1].k = "hdr" /\ e.data[1].id = id

\* a write that carries SEND, DATA and DONE together
IsBurst(e) == IsWrite(e, "SEND") /\ Len(e.data) = 5

\* C4: a regular file of size < 65536 goes to SendSmallFile and is written in
\* the burst form, one of size >= 65536 goes to SendLargeFile and is written
\* in the streaming form.
C4_DispatchOnSize ==
    /\ (pc = "send_small" /\ S_ISREG(loc.mode)) => loc.size < 65536
    /\ pc \in {"send_large", "large_open", "large_read", "large_done"}
         => loc.size >= 65536
    /\ \A i \in 1..Len(io) :
         (IsWrite(io[i], "SEND") /\ S_ISREG(loc.mode))
           => (IsBurst(io[i]) <=> loc.size < 65536)

\* a file of 65535 bytes went out in the burst form
C4_Witness ==
    /\ pc = "copy_done" /\ S_ISREG(loc.mode) /\ loc.size = 65535
    /\ Len(io) = 1 /\ IsBurst(io[1]) /\ io[1].ok

\* the positions of sync_send after SendSmallFile or SendLargeFile was entered
AfterSendEntered == pc \in {"copy_done", "report_copy_failure", "push_returned", "cldr_sent"}

\* the transfer in progress took the burst form
BurstCase ==
    /\ loc.pm # NoPath /\ loc.pm.len <= 1024
    /\ S_ISLNK(loc.mode) \/ loc.size < 65536

\* the data of a burst: the file, or the link text and its terminating zero
BurstLen == IF S_ISLNK(loc.mode) THEN loc.size + 1 ELSE loc.size

C5_Step ==
    (pc = "send_small" /\ BurstCase) =>
      /\ Len(io') = 1
      /\ io'[1].op = "write"
      /\ io'[1].n = 8 + loc.pm.len + 8 + BurstLen + 8
      /\ io'[1].data = <<Hdr("SEND", loc.pm.len), PathBytes(loc.pm),
                         Hdr("DATA", BurstLen), DataBytes(0, BurstLen),
                         Hdr("DONE", loc.mtime)>>
      /\ sc'.total_bytes = sc.total_bytes + (IF io'[1].ok THEN BurstLen ELSE 0)

\* C5: SendSmallFile makes one write: SEND header, path,mode, DATA header, the
\* data, DONE header with the mtime, in this order; total_bytes grows by the
\* data length when the write succeeds and not otherwise; no other write
\* follows in the transfer.
C5_BurstIsOneWrite ==
    /\ [][C5_Step]_vars
    /\ []((AfterSendEntered /\ BurstCase) => (Len(Writes(io)) = 1 /\ IsBurst(io[1])))

\* a symlink whose text is 10 bytes went out as 11 bytes of data and was answered
C5_Witness ==
    /\ pc = "cldr_sent" /\ ret /\ BurstCase /\ S_ISLNK(loc.mode)
    /\ io[1].data[3] = Hdr("DATA", 11)
    /\ sc.total_bytes = 11

\* the step appends a write to the stream
NewWrite == io' # io /\ io' # <<>> /\ io'[Len(io')].op = "write"

C6_Step ==
    (NewWrite /\ io'[Len(io')].data[1].id \in {"STAT", "RECV", "SEND", "QUIT"})
      => txn \in {"idle", "broken"}

\* C6: once a SEND is on the stream, no other request is written before the
\* DONE of that transaction was written and its OKAY or FAIL was read (a
\* stream that failed aside).
C6_SendThenDoneThenResponse == [][C6_Step]_vars

-----------------------------------------------------------------------------
(* Properties of SendLargeFile *)

\* the transfer in progress took the streaming form and SEND was written
StreamCase ==
    /\ loc.pm # NoPath /\ S_ISREG(loc.mode) /\ loc.size >= 65536
    /\ pc \notin {"sync_send", "send_large"}
    /\ io # <<>> /\ io[1].ok

Frames == SelectSeq(io, LAMBDA e : IsWrite(e, "DATA"))

RECURSIVE SumLens(_, _)
\* the payload bytes of the first n frames of fr
SumLens(fr, n) == IF n = 0 THEN 0 ELSE SumLens(fr, n - 1) + fr[n].data[1].len

OkFrames == SelectSeq(Frames, LAMBDA e : e.ok)

C7_State ==
    StreamCase =>
      /\ \A i \in 1..Len(Frames) :
           LET n == Frames[i].data[1].len IN
           /\ 1 <= n /\ n <= 65536
           /\ Frames[i].n = 8 + n
           /\ Frames[i].data = <<Hdr("DATA", n), DataBytes(SumLens(Frames, i - 1), n)>>
      /\ SumLens(OkFrames, Len(OkFrames)) = loc.bytes_copied
      /\ \A i \in 1..Len(io) :
           IsWrite(io[i], "DONE") =>
             /\ io[i].data = <<Hdr("DONE", loc.mtime)>>
             /\ \A j \in 1..Len(io) : io[j].op = "write" => j <= i
             /\ SumLens(Frames, Len(Frames)) = loc.size
             /\ (loc.size > 65536 /\ loc.size < 2 * 65536) =>
                  /\ Len(Frames) = 2
                  /\ Frames[1].data[1].len = 65536
                  /\ Frames[2].data[1].len = loc.size - 65536

C7_Step ==
    (pc = "large_read" /\ pc' = "large_read")
      => sc'.total_bytes = sc.total_bytes + io'[Len(io')].data[1].len

\* C7: every DATA frame of SendLargeFile carries 1..max_chunk bytes, the frames
\* carry the file's bytes in file order, their lengths add up to the bytes
\* read, total_bytes grows by a chunk's length when the chunk is written, DONE
\* (length = mtime) is written only at the end of the file, and a file of
\* max_chunk + k bytes, 0 < k < max_chunk, makes two frames of max_chunk and k.
C7_Streaming == []C7_State /\ [][C7_Step]_vars

\* a file of 65536 + 7 bytes: two frames, then DONE, then OKAY
C7_Witness ==
    /\ StreamCase /\ pc = "push_returned" /\ ret
    /\ loc.size = 65536 + 7
    /\ Len(Frames) = 2 /\ Frames[2].data[1].len = 7
    /\ sc.total_bytes = loc.size

-----------------------------------------------------------------------------
(* Properties of the skip phase of copy_local_dir_remote *)

HasBit(m, b) == (m \div b) % 2 = 1

\* the skip phase is under way
InSkipPhase ==
    /\ cl.check_timestamps
    /\ pc \in {"cldr_stat_send", "cldr_stat_read"}

\* the replies read so far, in the order read
Replies == SelectSeq(io, LAMBDA e : e.op = "read" /\ e.ok /\ e.data[1].id = "STAT")

\* C8: a local regular file is flagged iff the remote size and mtime equal the
\* local ones; a local symlink is flagged iff the remote size equals the local
\* one and the remote mtime is not older than the local one.
C8_SkipIffSizeAndTime ==
    InSkipPhase =>
      \A k \in 1..Len(Replies) :
        LET ci == cl.list[k]
            r == Replies[k].data[1]
        IN  /\ S_ISREG(ci.mode) =>
                 (ci.flag = 1 <=> (r.size = ci.size /\ r.time = ci.time))
            /\ S_ISLNK(ci.mode) =>
                 (ci.flag = 1 <=> (r.size = ci.size /\ r.time >= ci.time))

\* what the reply r to the STAT of ci makes of ci's flag, bit by bit
FlagCondition(ci, r) ==
    /\ r.size = ci.size
    /\ HasBit(r.mode, 32768)
    /\ IF S_ISREG(ci.mode) THEN r.time = ci.time
       ELSE r.time = ci.time \/ (HasBit(r.mode, 8192) /\ r.time > ci.time)

\* C9: the STAT requests of all the items are written, in list order, before
\* the first reply is read, and the k-th reply read decides the flag of the
\* k-th item.
C9_PipelinedStat ==
    InSkipPhase =>
      /\ \A i \in 1..Len(io) :
           IF i <= Len(Writes(io))
             THEN /\ io[i].op = "write"
                  /\ io[i].data = <<Hdr("STAT", cl.list[i].dst.len),
                                    PathBytes(cl.list[i].dst)>>
             ELSE /\ io[i].op = "read"
                  /\ Len(Writes(io)) = Len(cl.list)
      /\ \A k \in 1..Len(cl.list) :
           cl.list[k].flag = 1 <=> (k <= Len(Replies) /\ FlagCondition(cl.list[k], Replies[k].data[1]))

\* two items of different kinds, the same reply for both, different flags
C9_Witness ==
    /\ InSkipPhase /\ pc = "cldr_stat_read"
    /\ Len(cl.list) = 2 /\ Len(Replies) = 2
    /\ Replies[1] = Replies[2]
    /\ S_ISLNK(cl.list[1].mode) /\ cl.list[1].flag = 1
    /\ S_ISREG(cl.list[2].mode) /\ cl.list[2].flag = 0

-----------------------------------------------------------------------------
(* Properties of ~SyncConnection *)

C10_State ==
    (pc = "done" /\ eng.result) =>
      /\ Len(Writes(io)) = 1
      /\ io[1].op = "write"
      /\ io[1].n = 8
      /\ io[1].data[1] = Hdr("QUIT", 0)
      /\ sc.fd = "closed"
      /\ io[1].ok => /\ Len(io) = 2
                     /\ io[2] = ReadEv(TRUE, 0, <<>>)
                     /\ peer = "closed"

\* C10: the destructor of a session whose command succeeded writes one QUIT
\* request of 8 bytes (length 0, no payload) and nothing after it, reads the
\* end of the stream and closes the descriptor; with a peer that closes its
\* side after the QUIT, the destructor ends.
C10_QuitThenEof == []C10_State /\ (pc = "dtor" ~> pc = "done")

\* a push that succeeded, its QUIT written, the end of stream read
C10_Witness ==
    /\ pc = "done" /\ eng.result /\ eng.cmd = "push"
    /\ Len(io) = 2 /\ io[1].ok /\ io[2].op = "read" /\ io[2].ok
    /\ sc.total_bytes > 0

-----------------------------------------------------------------------------
(* Properties of the session after a failure *)

C11_Step ==
    (NewWrite /\ io'[Len(io')].data[1].id = "QUIT") => txn # "sent"

\* C11: once a push failed with its SEND on the stream and the transaction not
\* completed, no QUIT is written and the destructor does not wait for the end
\* of the stream.
C11_PoisonedSessionSendsNoQuit ==
    /\ [][C11_Step]_vars
    /\ [](pc = "dtor_shutdown" => txn # "sent")

-----------------------------------------------------------------------------
(* Properties of total_bytes *)

\* the step writes, with success, a DATA frame of n payload bytes
WritesData(n) ==
    /\ NewWrite /\ io'[Len(io')].ok
    /\ \E j \in 1..Len(io'[Len(io')].data) :
          /\ io'[Len(io')].data[j].k = "hdr"
          /\ io'[Len(io')].data[j] = Hdr("DATA", n)

\* the step stores the payload of the DATA frame just received
StoresData(n) ==
    /\ pc = "recv_write" /\ loc.msg = Hdr("DATA", n)
    /\ Len(io) > 0 /\ io[Len(io)].ok /\ io[Len(io)].n = n
    /\ io[Len(io)].data[1].k = "data"

C12_Step ==
    LET d == sc'.total_bytes - sc.total_bytes IN
    /\ d >= 0
    /\ d # 0 => (WritesData(d) \/ StoresData(d))
    /\ (NewWrite /\ io'[Len(io')].ok) =>
          \A j \in 1..Len(io'[Len(io')].data) :
              (io'[Len(io')].data[j].k = "hdr" /\ io'[Len(io')].data[j].id = "DATA")
                  => d = io'[Len(io')].data[j].len

\* C12: total_bytes is 0 at first and never decreases; a step changes it only
\* by the payload length of the DATA frame the step sends or stores; requests
\* that carry no DATA, rejected requests and failed writes leave it as it is.
C12_TotalBytes == sc.total_bytes = 0 /\ [][C12_Step]_vars

\* a pull that received two full DATA frames
C12_Witness ==
    /\ eng.cmd = "pull" /\ pc = "done"
    /\ sc.total_bytes = 2 * 65536

-----------------------------------------------------------------------------
(* Properties of sync_ls *)

IsDentRead(e, id) ==
    /\ e.op = "read" /\ e.ok /\ e.n = SyncDentSize
    /\ e.data[1].k = "dent" /\ e.data[1].id = id

IsNameRead(e, n) ==
    /\ e.op = "read" /\ e.ok /\ e.n = n
    /\ e.data[1].k = "name" /\ e.data[1].len = n

\* the stream after the LIST request holds k whole entries and then DONE
ListReply(k) ==
    /\ Len(io) = 2 * k + 2
    /\ io[1].op = "write" /\ io[1].ok /\ io[1].data[1] = Hdr("LIST", eng.dst.len)
    /\ \A i \in 1..k : /\ IsDentRead(io[2 * i], "DENT")
                       /\ io[2 * i].data[1].len <= 256
                       /\ IsNameRead(io[2 * i + 1], io[2 * i].data[1].len)
    /\ IsDentRead(io[2 * k + 2], "DONE")

\* what the callback got, call by call, against the entries on the stream
CallsMatch(k) ==
    /\ Len(loc.calls) = k
    /\ \A i \in 1..k :
         loc.calls[i] = [mode |-> io[2 * i].data[1].mode,
                         size |-> io[2 * i].data[1].size,
                         time |-> io[2 * i].data[1].time,
                         name |-> io[2 * i + 1].data[1].id]

\* C13: when the reply to LIST was k entries (names of at most 256 bytes) and
\* then DONE, the callback ran k times, in the order of the stream, each time
\* with the entry's mode, size, time and name, sync_ls returned true and read
\* nothing after the DONE; with k = 0 the callback did not run.
C13_ListCallsPerEntry ==
    /\ \A i \in 1..Len(io) :
         (eng.cmd = "ls" /\ io[i].op = "read" /\ IsDentRead(io[i], "DONE"))
            => /\ i = Len(io)
               /\ pc \in {"ls_returned", "dtor"}
    /\ \A k \in 0..(MaxDents + 1) :
         (eng.cmd = "ls" /\ pc \in {"ls_returned", "dtor"} /\ ListReply(k))
            => /\ CallsMatch(k)
               /\ IF pc = "ls_returned" THEN ret ELSE eng.result

\* two entries that differ, then DONE
C13_Witness ==
    /\ eng.cmd = "ls" /\ pc = "dtor" /\ ListReply(2)
    /\ io[2].data[1].mode # io[4].data[1].mode
    /\ io[3].data[1].id # io[5].data[1].id
    /\ io[2].data[1].len = 256

C14_TooLong(i) ==
    /\ i = Len(io)
    /\ pc \in {"ls_returned", "dtor"}
    /\ IF pc = "ls_returned" THEN ~ret ELSE ~eng.result
    /\ 2 * Len(loc.calls) = Len(io) - 2

C14_Longest(i) ==
    IF i = Len(io)
      THEN pc = "ls_name"
      ELSE io[i + 1].op = "read" /\ io[i + 1].n = 256

\* C14: an entry whose namelen is greater than 256 ends sync_ls with false, and
\* do_sync_ls with it: the name is not read and the callback runs neither for
\* this entry nor later; a namelen of exactly 256 goes on to the read of the
\* 256 bytes of the name.
C14_LongNameIsFatal ==
    \A i \in 1..Len(io) :
      (eng.cmd = "ls" /\ io[i].op = "read" /\ IsDentRead(io[i], "DENT"))
         => /\ io[i].data[1].len > 256 => C14_TooLong(i)
            /\ io[i].data[1].len = 256 => C14_Longest(i)

\* one entry listed, then an entry with a name of 257 bytes
C14_Witness ==
    /\ eng.cmd = "ls" /\ pc = "dtor"
    /\ Len(io) = 4 /\ IsDentRead(io[4], "DENT") /\ io[4].data[1].len = 257
    /\ Len(loc.calls) = 1 /\ ~eng.result

-----------------------------------------------------------------------------
(* Properties of the response to SEND *)

SyncSendPcs ==
    {"sync_send", "send_small", "send_large", "large_open", "large_read",
     "large_done", "copy_done", "report_copy_failure"}

\* the step makes exactly one read call on the stream, of n bytes
OneRead(n) ==
    /\ Len(io') = Len(io) + 1
    /\ io'[Len(io')].op = "read" /\ io'[Len(io')].n = n

\* the step returns v from sync_send, with no further call on the stream
SendReturns(v) == ret' = v /\ pc' = Head(stack) /\ stack' = Tail(stack)

C15_Step ==
    /\ pc = "copy_done" =>
         /\ OneRead(8)
         /\ LET e == io'[Len(io')] IN
            IF ~e.ok THEN SendReturns(FALSE)
            ELSE IF e.data[1].id = "OKAY" THEN SendReturns(TRUE)
            ELSE IF e.data[1].id = "FAIL"
              THEN /\ pc' = "report_copy_failure" /\ stack' = stack
                   /\ loc'.msg.len = e.data[1].len
            ELSE SendReturns(FALSE)
    /\ (pc = "report_copy_failure" /\ eng.cmd = "push") =>
         /\ OneRead(loc.msg.len)
         /\ SendReturns(FALSE)
    /\ (pc \in SyncSendPcs /\ eng.cmd = "push" /\ stack' = Tail(stack) /\ ret') =>
         /\ pc = "copy_done"
         /\ io'[Len(io')] = ReadEv(TRUE, 8, <<Hdr("OKAY", 0)>>)

\* C15: CopyDone makes one read of 8 bytes; OKAY ends sync_send with true and
\* no further read; FAIL is followed by one read of msglen bytes and false; any
\* other id, or a failed read, ends it with false. sync_send returns true only
\* from the read of OKAY.
C15_CopyDoneResponse == [][C15_Step]_vars

\* a FAIL with a message of 9 bytes was read whole, and the push failed
C15_Witness ==
    /\ eng.cmd = "push" /\ pc = "push_returned" /\ ~ret
    /\ Len(io) >= 2
    /\ io[Len(io)] = ReadEv(TRUE, 9, <<>>)
    /\ io[Len(io) - 1] = ReadEv(TRUE, 8, <<Hdr("FAIL", 9)>>)

-----------------------------------------------------------------------------
(* Properties of the loop over the sources *)

InLoop == pc \in {"push_loop", "pull_loop"} /\ eng.idx <= Len(eng.srcs)

\* the transaction of the current source read a FAIL header
FailRead ==
    \E i \in 1..Len(io) :
      /\ io[i].op = "read" /\ io[i].ok /\ io[i].data # <<>>
      /\ io[i].data[1].k = "hdr" /\ io[i].data[1].id = "FAIL"

\* the loop goes on with the next source, this one counted as failed
FailedAndOn(loop) ==
    /\ pc' = loop
    /\ eng'.idx = eng.idx + 1
    /\ ~eng'.success

C16_Step ==
    \* stat(src_path) failed
    /\ (pc = "push_loop" /\ InLoop /\ pc' = "push_loop") => FailedAndOn("push_loop")
    \* the remote object does not exist
    /\ (pc = "pull_src" /\ ret /\ st.mode = 0) => FailedAndOn("pull_loop")
    \* the server answered FAIL
    /\ (pc = "push_returned" /\ eng.cmd = "push" /\ ~ret /\ FailRead)
          => FailedAndOn("push_loop")
    /\ (pc = "pull_recvd" /\ ~ret /\ FailRead) => FailedAndOn("pull_loop")
    \* a source that is left is attempted
    /\ (pc = "push_loop" /\ InLoop) => pc' \in {"push_loop", "cldr", "sync_send"}
    /\ (pc = "pull_loop" /\ InLoop) => pc' = "sync_stat"
    \* the result is the AND of the results of the sources
    /\ (pc = "push_returned" /\ eng.cmd = "push") => eng'.success = (eng.success /\ ret)
    /\ (pc = "pull_recvd" /\ ~ret) => ~eng'.success
    /\ ~eng.success => ~eng'.success
    /\ (eng.cmd \in {"push", "pull"} /\ pc' = "dtor" /\ pc # "dtor" /\ ~eng.success)
          => ~eng'.result
    /\ (pc \in {"push_loop", "pull_loop"} /\ ~InLoop) => eng'.result = eng.success

\* C16: in do_sync_push and do_sync_pull a source that fails without a failure
\* of the transport (stat of the local source fails, the remote object does not
\* exist, the server answers FAIL) leaves the loop running: the next source is
\* attempted, and the result is the AND of the results of the sources.
C16_LoopGoesOn == [][C16_Step]_vars

\* the first source failed with the stream intact, the second was pushed
C16_Witness ==
    /\ eng.cmd = "push" /\ pc = "push_returned"
    /\ eng.idx = 2 /\ ~eng.success
    /\ ret /\ txn = "idle"

C17_Step ==
    (NewWrite /\ io'[Len(io')].ok
              /\ io'[Len(io')].data[1].id \in {"SEND", "STAT", "RECV"})
        => txn # "broken"

\* C17: once an I/O call of a transaction failed, or its response was an
\* unknown id, no SEND, STAT or RECV for another source or item is written on
\* the session.
C17_BrokenSessionStops == [][C17_Step]_vars

\* sync_send has just returned for a source that is neither file nor symlink
SpecialReturned ==
    /\ eng.cmd = "push" /\ pc = "push_returned"
    /\ loc.mode # 0 /\ ~S_ISREG(loc.mode) /\ ~S_ISLNK(loc.mode)

\* two sources: the first was pushed, the second is the special file
C18_Case ==
    /\ SpecialReturned
    /\ Len(eng.srcs) = 2 /\ eng.idx = 2 /\ eng.success

C18_Step ==
    \* the special file does not turn the result of the push to false
    /\ C18_Case => eng'.success
    \* and what do_sync_push returns after the last source is that result
    /\ (pc = "push_loop" /\ eng.idx > Len(eng.srcs)) => eng'.result = eng.success

\* C18: a source that is neither a regular file nor a symlink is skipped, and
\* do_sync_push still returns true when another source was pushed.
C18_SpecialFileIsSkipped == [][C18_Step]_vars

-----------------------------------------------------------------------------
(* Properties of list_only *)

ListOnly == eng.cmd = "sync" /\ eng.flag

C19_Step ==
    /\ (ListOnly /\ NewWrite) =>
          /\ HdrIds(io'[Len(io')]) \cap {"SEND", "DATA", "DONE"} = {}
          /\ io'[Len(io')].data[1].id \in {"STAT", "QUIT"}
    /\ (ListOnly /\ pc = "cldr_push" /\ cl.k <= Len(cl.list)) =>
          LET ci == cl.list[cl.k] IN
          /\ io' = io /\ pc' = "cldr_push" /\ cl'.k = cl.k + 1
          /\ IF ci.flag = 0
               THEN /\ cl'.pushed = cl.pushed + 1 /\ cl'.skipped = cl.skipped
                    /\ cl'.would_push =
                          Append(cl.would_push, [src |-> ci.src, dst |-> ci.dst])
               ELSE /\ cl'.skipped = cl.skipped + 1 /\ cl'.pushed = cl.pushed
                    /\ cl'.would_push = cl.would_push

\* C19: with list_only, do_sync_sync writes only the STAT requests and the
\* QUIT, never SEND, DATA or DONE; an item whose flag is clear is printed as
\* "would push" and counted as pushed, an item whose flag is set is counted as
\* skipped and not printed; total_bytes stays 0.
C19_ListOnlyTransfersNothing ==
    /\ [][C19_Step]_vars
    /\ [](ListOnly => sc.total_bytes = 0)

\* two items, one flagged: one printed and counted as pushed, one skipped
C19_Witness ==
    /\ ListOnly /\ pc = "sync_returned" /\ ret
    /\ cl.pushed = 1 /\ cl.skipped = 1 /\ Len(cl.would_push) = 1
    /\ sc.total_bytes = 0

-----------------------------------------------------------------------------
(* Properties of the destination of a push *)

\* do_sync_push returns false here, before the loop over the sources
TurnedDown == pc' = "dtor" /\ ~eng'.result

C20_Step ==
    \* the first thing do_sync_push does is the STAT of dst
    /\ pc = "push" => (pc' = "sync_stat" /\ st'.path = eng.dst /\ io' = io)
    \* the answer is read, and dst is not a directory
    /\ (pc = "push_dst" /\ ret /\ ~(st.mode # 0 /\ S_ISDIR(st.mode))) =>
          IF Len(eng.srcs) > 1 THEN TurnedDown
          ELSE TurnedDown <=> eng.slash
    \* no SEND after do_sync_push was turned down
    /\ (eng.cmd = "push" /\ NewWrite /\ "SEND" \in HdrIds(io'[Len(io')])) =>
          /\ pc \notin {"push", "sync_stat", "push_dst", "dtor"}
          /\ eng.isdir \/ (Len(eng.srcs) = 1 /\ ~eng.slash)
    /\ (eng.cmd = "push" /\ pc = "dtor") => pc' \in {"dtor_shutdown", "done"}

\* C20: do_sync_push stats the destination before any SEND; when it is not a
\* directory, a push of several sources fails, a push of one source fails at
\* this point iff dst ends in '/', and a push that failed so writes no SEND.
C20_DestinationChecked == [][C20_Step]_vars

\* two sources, sync_stat of the destination returned true, and the push was
\* turned down before its loop
C20_Witness ==
    /\ eng.cmd = "push" /\ pc = "dtor" /\ ~eng.result
    /\ Len(eng.srcs) = 2 /\ eng.idx = 1
    /\ ret /\ IsValid /\ txn = "idle"

-----------------------------------------------------------------------------
(* Properties of the receive state machine *)

RecvPcs ==
    {"sync_recv", "recv_request", "recv_creat", "recv_hdr", "recv_payload",
     "recv_write", "report_copy_failure"}

\* sync_recv returns v with this step
RecvReturns(v) == ret' = v /\ pc' = "pull_recvd" /\ stack' = Tail(stack)

C21_Step ==
    \* success comes only from a DONE read while a header is awaited
    /\ (eng.cmd = "pull" /\ pc \in RecvPcs /\ pc' = "pull_recvd" /\ ret') =>
          /\ pc = "recv_hdr"
          /\ IsHdrRead(io'[Len(io')], "DONE")
    /\ (pc = "recv_hdr" /\ io'[Len(io')].ok) =>
          LET h == io'[Len(io')].data[1] IN
          \* FAIL: the message bytes are read next
          /\ h.id = "FAIL" => pc' = "report_copy_failure"
          \* any other id that is not DATA or DONE: the receive fails
          /\ h.id \notin {"DATA", "DONE", "FAIL"} =>
                (RecvReturns(FALSE) \/ pc' = "report_copy_failure")
    /\ (eng.cmd = "pull" /\ pc = "report_copy_failure") =>
          /\ OneRead(loc.msg.len)
          /\ RecvReturns(FALSE)
          \* only the message of a FAIL is read from the stream
          /\ loc.msg.id # "FAIL" => io'[Len(io')].n = 0

\* C21: sync_recv returns true only on a DONE header; a FAIL header is followed
\* by the read of its message and failure; a header that is none of DATA, DONE
\* and FAIL fails at once, with no further byte read from the stream.
C21_ReceiveStateMachine == [][C21_Step]_vars

-----------------------------------------------------------------------------
(* Properties of the walks *)

Last(path) == path[Len(path)]

\* C23: in the remote walk as in the local one, an entry named "." or ".." is
\* neither put on the file list nor walked into, whatever its mode: no item's
\* destination ends in "/." or "/..".
C23_DotsAreLeftOut ==
    eng.cmd = "walk" =>
      /\ \A i \in 1..Len(cl.list) : ~IsDotOrDotDot(Last(cl.list[i].dst))
      /\ \A i \in 1..Len(cl.frames) :
           /\ i < Len(cl.frames) => ~IsDotOrDotDot(Last(cl.frames[i].src))
           /\ \A j \in 1..Len(cl.frames[i].dirlist) :
                ~IsDotOrDotDot(Last(cl.frames[i].dirlist[j].src))

\* the positions inside sync_recv and SendLargeFile that hold the local file open
HoldsLfd == {"recv_hdr", "recv_payload", "recv_write",
             "large_read"}

OpenFrames == {i \in 1..Len(cl.frames) : cl.frames[i].dir = "open"}

\* C22: the local file of a transfer (the destination of sync_recv, the source
\* of SendLargeFile) is open only inside the transfer and is closed exactly once
\* when the transfer returns; the directory of local_build_list is closed before
\* the subdirectories are walked and at every return, each handle once.
C22_HandlesReleased ==
    /\ fs.closes <= 1
    /\ (fs.lfd = "closed") <=> (fs.closes = 1)
    /\ (fs.lfd = "open" /\ pc # "crashed") => pc \in HoldsLfd
    /\ eng.cmd = "walk" =>
         /\ cl.opened - cl.closed = Cardinality(OpenFrames)
         /\ OpenFrames \subseteq {1}
         /\ OpenFrames # {} => pc = "lbl_read"
         /\ pc = "walk_done" => (cl.frames = <<>> /\ cl.opened = cl.closed)

\* a subdirectory is open, and the directory above it has been closed
C22_Witness ==
    /\ eng.cmd = "walk" /\ pc = "lbl_read"
    /\ Len(cl.frames) = 2
    /\ cl.frames[1].dir = "open" /\ cl.frames[2].dir = "null"
    /\ cl.opened = 2 /\ cl.closed = 1

-----------------------------------------------------------------------------
(* Properties of the progress computation *)

\* the step stores a DATA frame and computes bytes_copied * 100 / size
ComputesPercentage == pc = "recv_write" /\ Len(fs'.data) = Len(fs.data) + 1

C24_Step == ComputesPercentage => loc.size # 0

\* C24: whenever sync_recv computes the percentage bytes_copied * 100 / size,
\* the size of the STAT reply that went before the RECV is not zero.
C24_DivisorIsNotZero == [][C24_Step]_vars

-----------------------------------------------------------------------------
(* Properties of the buffer of ReportCopyFailure *)

\* C25: for every 32-bit msglen the buffer of msglen + 1 bytes (32-bit unsigned
\* arithmetic) is longer than msglen, so that the msglen bytes read and the
\* terminator at index msglen are inside it.
C25_BufferHoldsMessage ==
    (eng.cmd = "report" /\ pc # "rcf_alloc") =>
       /\ loc.bufsize = Inc32(loc.msglen)
       /\ Less32(loc.msglen, loc.bufsize)
       /\ pc # "crashed"

-----------------------------------------------------------------------------
(* Properties of the destination of sync_recv *)

\* the RECV request of the running sync_recv is on the stream
RecvWritten ==
    \E i \in 1..Len(io) :
      /\ io[i].op = "write" /\ io[i].ok
      /\ io[i].data[1] = Hdr("RECV", loc.rpath.len)

\* the positions of sync_recv after its RECV request
AfterRecv == {"recv_creat", "recv_hdr", "recv_payload", "recv_write"}

C26_Step ==
    \* inside sync_recv the local file system changes only after the request
    /\ (eng.cmd = "pull" /\ fs' # fs /\ pc \notin {"pull_src", "pull_recvd"}) =>
          (pc \in AfterRecv /\ RecvWritten)
    \* and the first thing done then, with nothing read, removes the old file
    /\ pc = "recv_creat" => (io' = io /\ fs'.file # "old")

C26_State ==
    eng.cmd = "pull" =>
      /\ pc \in AfterRecv => RecvWritten
      /\ (pc \in {"recv_hdr", "recv_payload", "recv_write", "report_copy_failure"})
            => fs.file # "old"
      /\ (pc = "pull_recvd" /\ ~ret /\ RecvWritten) => fs.file = "absent"
      /\ (pc = "pull_recvd" /\ ~RecvWritten) => (~ret /\ fs.lfd = "none")

\* C26: sync_recv leaves the local file system alone until the STAT reply was
\* read and the RECV request written, so a return before that keeps a file
\* that was there; after the request the old file is unlinked before anything
\* is read, and no later failure (a FAIL of the service included) leaves it.
C26_DestinationTouchedAfterRecv == [][C26_Step]_vars /\ []C26_State

\* sync_recv returned false before its RECV, and the old file is still there
C26_Witness ==
    /\ eng.cmd = "pull" /\ pc = "pull_recvd" /\ ~ret
    /\ ~RecvWritten /\ fs.file = "old"

-----------------------------------------------------------------------------
(* Properties of the atomic operations *)

RECURSIVE ValueAfter(_)
\* the updates of the first n calls of st.order applied one after another
ValueAfter(n) ==
    IF n = 0 THEN st.init
    ELSE NewValue(loc[st.order[n].t].call, ValueAfter(n - 1))

Returned == {t \in Threads : loc[t].at = "returned"}

C27_State ==
    \* no update is lost: the memory is the updates applied in their order
    /\ st.addr = ValueAfter(Len(st.order))
    /\ Len(st.order) = Cardinality(Returned)
    /\ \A n \in 1..Len(st.order) :
         LET t == st.order[n].t IN
         \* each call returned what the memory held before its own update
         /\ t \in Returned
         /\ loc[t].result = st.order[n].before
         /\ loc[t].result = ValueAfter(n - 1)

C27_Step ==
    \A t \in Threads :
      (loc[t].at = "cas" /\ loc'[t].at # "cas") =>
         \* the compare-and-swap succeeds iff the memory equals oldvalue
         /\ (loc'[t].at = "returned") <=> (st.addr = loc[t].oldValue)
         /\ loc'[t].at = "returned" =>
               st'.addr = NewValue(loc[t].call, loc[t].oldValue)
         \* and leaves the memory as it is otherwise
         /\ loc'[t].at # "returned" => st'.addr = st.addr

\* C27: under every interleaving of add, inc, dec, and, or on one address no
\* update is lost: each call returns the value the memory held just before its
\* own successful compare-and-swap, the memory is the updates applied in the
\* order of their compare-and-swaps, and cas succeeds iff the memory equals
\* oldvalue, leaving it unchanged otherwise.
C27_NoLostUpdate ==
    /\ [](eng.cmd = "atomic" => C27_State)
    /\ [][eng.cmd = "atomic" => C27_Step]_vars

\* every call returned, and an and() was applied to what another call left
C27_Witness ==
    /\ eng.cmd = "atomic" /\ Returned = Threads
    /\ \E n \in 1..Len(st.order) :
         st.order[n].before # st.init
    /\ \E t \in Threads : loc[t].oldValue # st.init /\ loc[t].call.op = "and"

=============================================================================
